---- MODULE Spec2Model ----
(***************************************************************************)
(* NEAT walking simulation: the innovation tracker, genomes and networks,  *)
(* the mutation operators, crossover, speciation, Population.evolve and    *)
(* the SimulationRunner's generation state machine.                        *)
(*                                                                         *)
(* Numbers.  Weights, fitness values, distances between genomes and the    *)
(* values returned by rng() are fixed-point integers in thousandths (a     *)
(* weight of 1 is 1000, rng() = 0.25 is 250).  Node layers are fixed-point *)
(* with 1024 = layer 1, so that midpoints stay exact for ten splits.       *)
(* A random source is a finite sequence of rng() values that is read       *)
(* cyclically; an operator that draws random numbers takes the source s    *)
(* and the position k of the next value and returns the new position.      *)
(***************************************************************************)
EXTENDS Integers, Sequences, FiniteSets, TLC

VARIABLES
    population,   \* the Population object: tracker, generation, genomes, species, ...
    runner,       \* the SimulationRunner's fields
    store,        \* useSimStore: the fields the runner reads (playing, view.showBestOnly)
    world,        \* the physics collaborator's observable state for the running episode
    lab,          \* objects built directly through the library API (genomes, networks)
    ret,          \* outcome of the last operation (return value or raised error)
    hist          \* history of operations, kept for the properties below

vars == <<population, runner, store, world, lab, ret, hist>>

-----------------------------------------------------------------------------
(* Sizes fixed by the program *)

JointCount == 11
InputCount == JointCount * 2 + 9
OutputCount == JointCount
BiasId == InputCount
FirstHiddenId == InputCount + 1 + OutputCount

InputIds == [i \in 1..InputCount |-> i - 1]
OutputIds == [i \in 1..OutputCount |-> InputCount + 1 + (i - 1)]

LayerOne == 1024

-----------------------------------------------------------------------------
(* Generic helpers *)

Min2(a, b) == IF a <= b THEN a ELSE b
Max2(a, b) == IF a >= b THEN a ELSE b
Abs(a) == IF a < 0 THEN -a ELSE a
\* no clamping at all
ClampNone(v, lo, hi) == v

\* clamp(v, min, max)
Clamp(v, lo, hi) == Max2(lo, Min2(hi, v))
MinOfSet(S) == CHOOSE x \in S : \A y \in S : x <= y
MaxOfSet(S) == CHOOSE x \in S : \A y \in S : x >= y
Range(f) == {f[i] : i \in DOMAIN f}
Indices(q) == [i \in 1..Len(q) |-> i]

\* rng(): the k-th value drawn from the random source s, in thousandths
Rng(s, k) == s[(k % Len(s)) + 1]
\* Math.floor(rng() * n)
FloorMul(r, n) == (r * n) \div 1000
\* (rng() * 2 - 1) * scale, scale in thousandths
\* b, with a computed first: the statements of a loop body run in order, each
\* on the finished result of the one before
After(a, b) == IF a = a THEN b ELSE b

\* a for loop: Step(st, i) applied to the state st for i = lo, ..., hi in
\* that order; the range is halved so that the evaluation does not nest
\* once per iteration
\* v bound to a name: Body(v), with v computed first and once
With(v, Body(_)) == After(v, Body(v))

RECURSIVE ForEach(_, _, _, _)
ForEach(Step(_, _), st, lo, hi) ==
    IF lo > hi THEN st
    ELSE IF lo = hi THEN Step(st, lo)
    ELSE LET mid == (lo + hi) \div 2
             first == ForEach(Step, st, lo, mid)
         IN After(first, ForEach(Step, first, mid + 1, hi))

SumSeq(q) == ForEach(LAMBDA acc, i : acc + q[i], 0, 1, Len(q))

Signed(r, scale) == ((2 * r - 1000) * scale) \div 1000

-----------------------------------------------------------------------------
(* InnovationTracker *)

NewTracker(nextNodeId) ==
    [nextInnovation |-> 1,
     nextNodeId |-> nextNodeId,
     connInnovations |-> <<>>,
     splitByInnovation |-> <<>>]

ConnectionKey(from, to) == <<from, to>>

\* a tracker that never looks a pair up
GetInnovationFresh(t, from, to) ==
    [t |-> [t EXCEPT !.nextInnovation = @ + 1,
                     !.connInnovations = (ConnectionKey(from, to) :> t.nextInnovation) @@ @],
     id |-> t.nextInnovation]

GetInnovation(t, from, to) ==
    LET key == ConnectionKey(from, to) IN
    IF key \in DOMAIN t.connInnovations
    THEN [t |-> t, id |-> t.connInnovations[key]]
    ELSE [t |-> [t EXCEPT !.nextInnovation = @ + 1,
                          !.connInnovations = (key :> t.nextInnovation) @@ @],
          id |-> t.nextInnovation]

\* a tracker that never looks a split up
GetSplitRecordFresh(t, connectionInnovation, from, to) ==
    LET newNodeId == t.nextNodeId IN
    With(GetInnovation([t EXCEPT !.nextNodeId = @ + 1], from, newNodeId), LAMBDA a :
    With(GetInnovation(a.t, newNodeId, to), LAMBDA b :
    With([newNodeId |-> newNodeId, inInnovation |-> a.id, outInnovation |-> b.id], LAMBDA rec :
        [t |-> [b.t EXCEPT !.splitByInnovation = (connectionInnovation :> rec) @@ @],
         rec |-> rec])))

GetSplitRecord(t, connectionInnovation, from, to) ==
    IF connectionInnovation \in DOMAIN t.splitByInnovation
    THEN [t |-> t, rec |-> t.splitByInnovation[connectionInnovation]]
    ELSE LET newNodeId == t.nextNodeId IN
         With(GetInnovation([t EXCEPT !.nextNodeId = @ + 1], from, newNodeId), LAMBDA a :
         With(GetInnovation(a.t, a.t.nextNodeId - 1, to), LAMBDA b :
         With([newNodeId |-> newNodeId, inInnovation |-> a.id, outInnovation |-> b.id],
              LAMBDA rec :
             [t |-> [b.t EXCEPT !.splitByInnovation = (connectionInnovation :> rec) @@ @],
              rec |-> rec])))

-----------------------------------------------------------------------------
(* Genome *)

NoNode == [id |-> -1, type |-> "none", layer |-> 0]

\* Array.prototype.find on the node list
FindNode(nodes, id) ==
    LET S == {i \in 1..Len(nodes) : nodes[i].id = id}
    IN IF S = {} THEN NoNode ELSE nodes[MinOfSet(S)]

HasNode(nodes, id) == \E i \in 1..Len(nodes) : nodes[i].id = id
\* a test that finds no innovation present
HasInnovationNever(conns, innov) == FALSE

\* genome.connections.some((c) => c.innovation === innov)
HasInnovation(conns, innov) == \E i \in 1..Len(conns) : conns[i].innovation = innov
HasConnection(conns, from, to) ==
    \E i \in 1..Len(conns) : conns[i].from = from /\ conns[i].to = to

EnabledIndices(conns) == SelectSeq(Indices(conns), LAMBDA i : conns[i].enabled)

HiddenCount(g) == Cardinality({i \in 1..Len(g.nodes) : g.nodes[i].type = "hidden"})

\* the initial wiring of Genome.minimal, in the order the code creates it:
\* bias -> all outputs, sin(phase) -> leg outputs, cos(phase) -> knees,
\* torso angle -> hips; scale is the weight range in thousandths
MinimalWiring ==
    LET sinPhaseId == InputIds[InputCount - 1]
        cosPhaseId == InputIds[InputCount]
        torsoAngleId == InputIds[23]
    IN [i \in 1..OutputCount |-> [from |-> BiasId, to |-> OutputIds[i], scale |-> 300]]
       \o [i \in 1..(OutputCount - 5) |->
              [from |-> sinPhaseId, to |-> OutputIds[5 + i], scale |-> 1200]]
       \o << [from |-> cosPhaseId, to |-> OutputIds[7], scale |-> 800],
             [from |-> cosPhaseId, to |-> OutputIds[10], scale |-> 800] >>
       \o << [from |-> torsoAngleId, to |-> OutputIds[6], scale |-> 600],
             [from |-> torsoAngleId, to |-> OutputIds[9], scale |-> 600] >>

MinimalNodes ==
    [i \in 1..InputCount |-> [id |-> InputIds[i], type |-> "input", layer |-> 0]]
    \o << [id |-> BiasId, type |-> "bias", layer |-> 0] >>
    \o [i \in 1..OutputCount |-> [id |-> OutputIds[i], type |-> "output", layer |-> LayerOne]]

\* one connection of the initial wiring: its innovation id and a random weight
WireNext(st, s, i) ==
    With(MinimalWiring[i], LAMBDA w :
    With(GetInnovation(st.t, w.from, w.to), LAMBDA gi :
        [conns |-> Append(st.conns,
                          [innovation |-> gi.id, from |-> w.from, to |-> w.to,
                           weight |-> Signed(Rng(s, st.k), w.scale), enabled |-> TRUE]),
         t |-> gi.t, k |-> st.k + 1]))

WireMinimal(conns, t, s, k, i) ==
    ForEach(LAMBDA st, n : WireNext(st, s, n),
            [conns |-> conns, t |-> t, k |-> k], i, Len(MinimalWiring))

\* Genome.minimal(init, tracker, rng)
Minimal(t, s, k) ==
    With(WireMinimal(<<>>, t, s, k, 1), LAMBDA w :
        [g |-> [nodes |-> MinimalNodes, connections |-> w.conns, fitness |-> 0],
         t |-> w.t, k |-> w.k])

\* a new node put on the layer of the connection's target
TargetLayer(fromLayer, toLayer) == toLayer

\* (fromNode.layer + toNode.layer) / 2
MidLayer(fromLayer, toLayer) == (fromLayer + toLayer) \div 2

\* the split of connection number ci of g: disable it, fetch the split record,
\* add the hidden node and the two replacement connections unless present;
\* used reports the split record the genome was given (empty if none)
SplitAt(g, t, ci) ==
    LET connection == g.connections[ci]
        g1 == [g EXCEPT !.connections[ci].enabled = FALSE] IN
    With(FindNode(g.nodes, connection.from), LAMBDA fromNode :
    With(FindNode(g.nodes, connection.to), LAMBDA toNode :
        IF fromNode = NoNode \/ toNode = NoNode THEN [g |-> g1, t |-> t, used |-> <<>>]
        ELSE
    With(GetSplitRecord(t, connection.innovation, connection.from, connection.to), LAMBDA sp :
    With(sp.rec, LAMBDA split :
    With(IF HasNode(g1.nodes, split.newNodeId) THEN g1.nodes
         ELSE Append(g1.nodes,
                     [id |-> split.newNodeId, type |-> "hidden",
                      layer |-> MidLayer(fromNode.layer, toNode.layer)]), LAMBDA nodes1 :
    With(IF HasInnovation(g1.connections, split.inInnovation) THEN g1.connections
         ELSE Append(g1.connections,
                     [innovation |-> split.inInnovation,
                      from |-> connection.from, to |-> split.newNodeId,
                      weight |-> 1000, enabled |-> TRUE]), LAMBDA conns1 :
    With(IF HasInnovation(conns1, split.outInnovation) THEN conns1
         ELSE Append(conns1,
                     [innovation |-> split.outInnovation,
                      from |-> split.newNodeId, to |-> connection.to,
                      weight |-> connection.weight, enabled |-> TRUE]), LAMBDA conns2 :
        [g |-> [g1 EXCEPT !.nodes = nodes1, !.connections = conns2], t |-> sp.t,
         used |-> << [innovation |-> connection.innovation, split |-> split] >>])))))))

\* an add-node mutation that splits any connection, enabled or not
MutateAddNodeAny(g, t, s, k) ==
    IF Len(g.connections) = 0 THEN [g |-> g, t |-> t, k |-> k, used |-> <<>>]
    ELSE With(SplitAt(g, t, FloorMul(Rng(s, k), Len(g.connections)) + 1),
              LAMBDA r : [g |-> r.g, t |-> r.t, k |-> k + 1, used |-> r.used])

\* mutateAddNode(genome, tracker, rng)
MutateAddNode(g, t, s, k) ==
    With(EnabledIndices(g.connections), LAMBDA enabledConnections :
        IF Len(enabledConnections) = 0 THEN [g |-> g, t |-> t, k |-> k, used |-> <<>>]
        ELSE
    With(SplitAt(g, t, enabledConnections[FloorMul(Rng(s, k), Len(enabledConnections)) + 1]),
         LAMBDA r : [g |-> r.g, t |-> r.t, k |-> k + 1, used |-> r.used]))

\* one mutateAddNode of the loop of withHiddenNodes
SplitNext(st, s) ==
    With(EnabledIndices(st.g.connections), LAMBDA enabledConns :
        IF Len(enabledConns) = 0 THEN st
        ELSE
    With(SplitAt(st.g, st.t, enabledConns[FloorMul(Rng(s, st.k), Len(enabledConns)) + 1]),
         LAMBDA r : [g |-> r.g, t |-> r.t, k |-> st.k + 1, used |-> st.used \o r.used]))

SplitLoop(g, t, s, k, left, used) ==
    ForEach(LAMBDA st, n : SplitNext(st, s),
            [g |-> g, t |-> t, k |-> k, used |-> used], 1, left)

\* Genome.withHiddenNodes(init, tracker, hiddenCount, rng)
WithHiddenNodes(t, hiddenCount, s, k) ==
    With(Minimal(t, s, k), LAMBDA m : SplitLoop(m.g, m.t, s, m.k, hiddenCount, <<>>))

\* Genome.clone(): genes are copied, fitness starts again at 0
Clone(g) == [nodes |-> g.nodes, connections |-> g.connections, fitness |-> 0]

\* the gene content of a genome (what clone() copies)
Genes(g) == [nodes |-> g.nodes, connections |-> g.connections]

-----------------------------------------------------------------------------
(* Mutation operators (neat/mutation.ts) *)

NoCount == -1

\* WeightMutationOptions after the defaults of mutateWeightsWithOptions
DefaultWeightMutation ==
    [perturbChance |-> 970, perturbScale |-> 250, resetScale |-> 900,
     mutationsPerGenome |-> NoCount]

\* rng() > effectiveMutationRate, for the value r drawn and a genome of n connections
SkipsWeight(r, mutationRate, opts, n) ==
    IF opts.mutationsPerGenome # NoCount
    THEN IF n = 0 THEN r > 0
         ELSE IF Max2(0, opts.mutationsPerGenome) >= n THEN r > 1000
         ELSE r * n > 1000 * Max2(0, opts.mutationsPerGenome)
    ELSE r > mutationRate

\* the loop body of mutateWeightsWithOptions for connection i
MutateWeightAt(st, mutationRate, opts, s, i) ==
    LET conns == st.conns
        k == st.k
    IN IF SkipsWeight(Rng(s, k), mutationRate, opts, Len(conns))
       THEN [conns |-> conns, k |-> k + 1]
       ELSE LET perturb == Rng(s, k + 1) < opts.perturbChance
                w == IF perturb
                     THEN Clamp(conns[i].weight + Signed(Rng(s, k + 2), opts.perturbScale),
                                -5000, 5000)
                     ELSE Clamp(Signed(Rng(s, k + 2), opts.resetScale), -5000, 5000)
            IN [conns |-> [conns EXCEPT ![i].weight = w], k |-> k + 3]

MutateWeightsFrom(conns, mutationRate, opts, s, k, i) ==
    ForEach(LAMBDA st, n : MutateWeightAt(st, mutationRate, opts, s, n),
            [conns |-> conns, k |-> k], i, Len(conns))

\* mutateWeightsWithOptions(genome, mutationRate, rng, opts)
MutateWeightsWithOptions(g, mutationRate, opts, s, k) ==
    With(MutateWeightsFrom(g.connections, mutationRate, opts, s, k, 1), LAMBDA r :
        [g |-> [g EXCEPT !.connections = r.conns], k |-> r.k])

\* mutateToggleConnection(genome, rng)
MutateToggleConnection(g, s, k) ==
    IF Len(g.connections) = 0 THEN [g |-> g, k |-> k]
    ELSE LET idx == FloorMul(Rng(s, k), Len(g.connections)) + 1
         IN [g |-> [g EXCEPT !.connections[idx].enabled = ~@], k |-> k + 1]

AddConnectionAttempts == 30

\* one attempt of mutateAddConnection; the loop returns at the first pair it can connect
AddConnectionTry(st, fromCandidates, toCandidates, s) ==
    IF st.done THEN st
    ELSE LET k == st.k
             from == fromCandidates[FloorMul(Rng(s, k), Len(fromCandidates)) + 1]
             to == toCandidates[FloorMul(Rng(s, k + 1), Len(toCandidates)) + 1]
         IN IF \/ from.id = to.id
               \/ from.layer >= to.layer
               \/ HasConnection(st.g.connections, from.id, to.id)
            THEN [st EXCEPT !.k = k + 2]
            ELSE With(GetInnovation(st.t, from.id, to.id), LAMBDA gi :
                     [g |-> [st.g EXCEPT !.connections =
                                Append(@, [innovation |-> gi.id, from |-> from.id,
                                           to |-> to.id,
                                           weight |-> Clamp(Signed(Rng(s, k + 2), 1500),
                                                            -5000, 5000),
                                           enabled |-> TRUE])],
                      t |-> gi.t, k |-> k + 3, done |-> TRUE])

AddConnectionFrom(g, t, fromCandidates, toCandidates, s, k, attempt) ==
    With(ForEach(LAMBDA st, n : AddConnectionTry(st, fromCandidates, toCandidates, s),
                 [g |-> g, t |-> t, k |-> k, done |-> FALSE],
                 attempt, AddConnectionAttempts - 1),
         LAMBDA r : [g |-> r.g, t |-> r.t, k |-> r.k])

\* mutateAddConnection(genome, tracker, rng)
MutateAddConnection(g, t, s, k) ==
    With(SelectSeq(g.nodes, LAMBDA n : n.type # "output"), LAMBDA fromCandidates :
    With(SelectSeq(g.nodes, LAMBDA n : n.type # "input" /\ n.type # "bias"),
         LAMBDA toCandidates :
        IF Len(fromCandidates) = 0 \/ Len(toCandidates) = 0 THEN [g |-> g, t |-> t, k |-> k]
        ELSE AddConnectionFrom(g, t, fromCandidates, toCandidates, s, k, 0)))

\* (leftOutput, rightOutput) indices of the leg joints
LegMirrorPairs == << <<5, 8>>, <<6, 9>>, <<7, 10>> >>

\* the loop body of mutateMirrorWeights for one connection into the left joint
MirrorLeftAt(st, leftConns, rightConns, s, i) ==
    LET conns == st.conns
        k == st.k
        lc == conns[leftConns[i]]
        M == {j \in 1..Len(rightConns) : conns[rightConns[j]].from = lc.from}
    IN IF M = {} THEN st
       ELSE LET ri == rightConns[MinOfSet(M)]
                target == -lc.weight
                w == Clamp(conns[ri].weight
                             + ((target - conns[ri].weight) * 3 * Rng(s, k)) \div 10000,
                           -5000, 5000)
            IN [conns |-> [conns EXCEPT ![ri].weight = w], k |-> k + 1]

MirrorLeft(conns, leftConns, rightConns, s, k, i) ==
    ForEach(LAMBDA st, n : MirrorLeftAt(st, leftConns, rightConns, s, n),
            [conns |-> conns, k |-> k], i, Len(leftConns))

\* the loop body of mutateMirrorWeights for one (left, right) pair of joints
MirrorPair(st, s, p) ==
    LET conns == st.conns
        outputIdStart == InputCount + 1
        leftOutputId == outputIdStart + LegMirrorPairs[p][1]
        rightOutputId == outputIdStart + LegMirrorPairs[p][2]
        leftConns == SelectSeq(Indices(conns),
                               LAMBDA i : conns[i].to = leftOutputId /\ conns[i].enabled)
        rightConns == SelectSeq(Indices(conns),
                                LAMBDA i : conns[i].to = rightOutputId /\ conns[i].enabled)
    IN MirrorLeft(conns, leftConns, rightConns, s, st.k, 1)

MirrorPairs(conns, s, k, p) ==
    ForEach(LAMBDA st, n : MirrorPair(st, s, n),
            [conns |-> conns, k |-> k], p, Len(LegMirrorPairs))

\* mutateMirrorWeights(genome, rng)
MutateMirrorWeights(g, s, k) ==
    With(MirrorPairs(g.connections, s, k, 1), LAMBDA r :
        [g |-> [g EXCEPT !.connections = r.conns], k |-> r.k])

\* mutateGenome(genome, tracker, opts, rng); opts carries every option
\* (allowStructural, allowToggle, allowMirror default to TRUE at the callers)
MutateGenome(g, t, opts, s, k) ==
    With(MutateWeightsWithOptions(g, opts.mutationRate, opts.weightMutation, s, k),
         LAMBDA w :
    With(LET k1 == IF opts.allowStructural THEN w.k + 1 ELSE w.k
         IN IF opts.allowStructural /\ Rng(s, w.k) < opts.addConnectionProbability
            THEN MutateAddConnection(w.g, t, s, k1)
            ELSE [g |-> w.g, t |-> t, k |-> k1],
         LAMBDA a :
    With(LET k2 == IF opts.allowStructural THEN a.k + 1 ELSE a.k
         IN IF opts.allowStructural /\ Rng(s, a.k) < opts.addNodeProbability
            THEN MutateAddNode(a.g, a.t, s, k2)
            ELSE [g |-> a.g, t |-> a.t, k |-> k2],
         LAMBDA b :
    With(LET k3 == IF opts.allowToggle THEN b.k + 1 ELSE b.k
         IN IF opts.allowToggle /\ Rng(s, b.k) < 20
            THEN MutateToggleConnection(b.g, s, k3)
            ELSE [g |-> b.g, k |-> k3],
         LAMBDA c :
    With(LET k4 == IF opts.allowMirror THEN c.k + 1 ELSE c.k
         IN IF opts.allowMirror /\ Rng(s, c.k) < 80
            THEN MutateMirrorWeights(c.g, s, k4)
            ELSE [g |-> c.g, k |-> k4],
         LAMBDA d : [g |-> d.g, t |-> b.t, k |-> d.k])))))

-----------------------------------------------------------------------------
(* Crossover (neat/population.ts) *)

\* Map.get on a Map built from the connection list: the last gene of that
\* innovation, 0 when there is none
IndexByInnovation(conns, innov) ==
    LET S == {i \in 1..Len(conns) : conns[i].innovation = innov}
    IN IF S = {} THEN 0 ELSE MaxOfSet(S)

MatchEnabledDrawn(cEnabled, matchEnabled, r) == r < 250

\* enabled of a gene both parents carry: c.enabled && match.enabled ? true : rng() < 0.25
MatchEnabled(cEnabled, matchEnabled, r) ==
    IF cEnabled /\ matchEnabled THEN TRUE ELSE r < 250

\* the first loop of crossover for gene i of the fitter parent
CrossMatchAt(st, fitterConns, otherConns, s, i) ==
    LET c == fitterConns[i]
        k == st.k
        mi == IndexByInnovation(otherConns, c.innovation)
    IN IF mi = 0 THEN [conns |-> Append(st.conns, c), k |-> k]
       ELSE LET match == otherConns[mi]
                chosen == IF Rng(s, k) < 500 THEN c ELSE match
                both == c.enabled /\ match.enabled
                enabled == MatchEnabled(c.enabled, match.enabled, Rng(s, k + 1))
            IN [conns |-> Append(st.conns, [chosen EXCEPT !.enabled = enabled]),
                k |-> IF both THEN k + 1 ELSE k + 2]

CrossMatching(acc, fitterConns, otherConns, s, k, i) ==
    ForEach(LAMBDA st, n : CrossMatchAt(st, fitterConns, otherConns, s, n),
            [conns |-> acc, k |-> k], i, Len(fitterConns))

\* the second loop of crossover for gene i of the other parent
CrossInheritAt(st, fitterConns, otherConns, s, i) ==
    LET c == otherConns[i]
        k == st.k
    IN IF IndexByInnovation(fitterConns, c.innovation) # 0 THEN st
       ELSE IF ~(Rng(s, k) < 200) THEN [st EXCEPT !.k = k + 1]
       ELSE LET enabled == c.enabled /\ Rng(s, k + 1) < 750
            IN [conns |-> Append(st.conns, [c EXCEPT !.enabled = enabled]),
                k |-> IF c.enabled THEN k + 2 ELSE k + 1]

CrossInherit(acc, fitterConns, otherConns, s, k, i) ==
    ForEach(LAMBDA st, n : CrossInheritAt(st, fitterConns, otherConns, s, n),
            [conns |-> acc, k |-> k], i, Len(otherConns))

\* new Map(nodes.map(n => [n.id, n])).values(): one node per id, in the order
\* of first appearance, carrying the last node of that id
NodesById(nodes) ==
    LET firsts == SelectSeq(Indices(nodes),
                            LAMBDA i : \A j \in 1..(i - 1) : nodes[j].id # nodes[i].id)
    IN [p \in 1..Len(firsts) |->
           nodes[MaxOfSet({j \in 1..Len(nodes) : nodes[j].id = nodes[firsts[p]].id})]]

\* fitter.nodes.find(..) ?? other.nodes.find(..)
FindInParents(fitterNodes, otherNodes, id) ==
    IF HasNode(fitterNodes, id) THEN FindNode(fitterNodes, id) ELSE FindNode(otherNodes, id)

\* a crossover that pulls no node in
AddNever(nodes, fitterNodes, otherNodes, id) == nodes

\* if (!nodesById.has(id)) { .. if (node) nodesById.set(node.id, {...node}) }
AddIfMissing(nodes, fitterNodes, otherNodes, id) ==
    IF HasNode(nodes, id) THEN nodes
    ELSE LET n == FindInParents(fitterNodes, otherNodes, id)
         IN IF n = NoNode THEN nodes ELSE Append(nodes, n)

CollectNodes(nodes, conns, fitterNodes, otherNodes, i) ==
    ForEach(LAMBDA acc, n :
                AddIfMissing(AddIfMissing(acc, fitterNodes, otherNodes, conns[n].from),
                             fitterNodes, otherNodes, conns[n].to),
            nodes, i, Len(conns))

\* crossover(fitter, other, rng)
Crossover(fitter, other, s, k) ==
    With(CrossMatching(<<>>, fitter.connections, other.connections, s, k, 1), LAMBDA m :
    With(CrossInherit(m.conns, fitter.connections, other.connections, s, m.k, 1),
         LAMBDA h :
        [g |-> [nodes |-> CollectNodes(NodesById(fitter.nodes), h.conns,
                                       fitter.nodes, other.nodes, 1),
                connections |-> h.conns, fitness |-> 0],
         k |-> h.k]))

-----------------------------------------------------------------------------
(* Compatibility distance and species (neat/species.ts) *)

\* Array.prototype.sort with a comparator on an integer key: ascending, stable
SortByKey(q, keys) ==
    LET n == Len(q)
        pos == [i \in 1..n |->
                   Cardinality({j \in 1..n : keys[j] < keys[i] \/ (keys[j] = keys[i] /\ j < i)})]
    IN IF \A i \in 1..(n - 1) : keys[i] <= keys[i + 1] THEN q
       ELSE After(pos, [p \in 1..n |-> q[CHOOSE i \in 1..n : pos[i] = p - 1]])

SortByInnovation(conns) == SortByKey(conns, [i \in 1..Len(conns) |-> conns[i].innovation])

\* [...genomes].sort(byFitnessDesc)
SortByFitnessDesc(gs) == SortByKey(gs, [i \in 1..Len(gs) |-> -gs[i].fitness])

\* one turn of the while loop of compatibilityDistance (i, j: 1-based positions)
ScanNext(st, aGenes, bGenes, aMax, bMax) ==
    IF st.i > Len(aGenes) \/ st.j > Len(bGenes) THEN st
    ELSE LET ga == aGenes[st.i]
             gb == bGenes[st.j]
             acc == st.acc
         IN IF ga.innovation = gb.innovation
            THEN [i |-> st.i + 1, j |-> st.j + 1,
                  acc |-> [acc EXCEPT !.matching = @ + 1,
                                      !.weightDiff = @ + Abs(ga.weight - gb.weight)]]
            ELSE IF ga.innovation < gb.innovation
            THEN [i |-> st.i + 1, j |-> st.j,
                  acc |-> IF ga.innovation > bMax THEN [acc EXCEPT !.excess = @ + 1]
                          ELSE [acc EXCEPT !.disjoint = @ + 1]]
            ELSE [i |-> st.i, j |-> st.j + 1,
                  acc |-> IF gb.innovation > aMax THEN [acc EXCEPT !.excess = @ + 1]
                          ELSE [acc EXCEPT !.disjoint = @ + 1]]

\* the while loop, which ends within Len(aGenes) + Len(bGenes) turns, and the
\* count of the genes left over as excess
ScanGenes(aGenes, bGenes, aMax, bMax, i, j, acc) ==
    With(ForEach(LAMBDA st, n : ScanNext(st, aGenes, bGenes, aMax, bMax),
                 [i |-> i, j |-> j, acc |-> acc], 1, Len(aGenes) + Len(bGenes)),
         LAMBDA r :
        [r.acc EXCEPT !.excess = @ + (Len(aGenes) - (r.i - 1)) + (Len(bGenes) - (r.j - 1))])

\* a distance that adds up the hidden nodes of the two genomes
CompatibilityDistanceSummed(a, b) ==
    With(SortByInnovation(a.connections), LAMBDA aGenes :
    With(SortByInnovation(b.connections), LAMBDA bGenes :
    With(ScanGenes(aGenes, bGenes,
                   IF Len(aGenes) = 0 THEN 0 ELSE aGenes[Len(aGenes)].innovation,
                   IF Len(bGenes) = 0 THEN 0 ELSE bGenes[Len(bGenes)].innovation,
                   1, 1,
                   [matching |-> 0, weightDiff |-> 0, disjoint |-> 0, excess |-> 0]),
         LAMBDA r :
        LET n == Max2(Len(aGenes), Len(bGenes))
            normalizer == IF n < 20 THEN 1 ELSE n
            avgWeightDiff == IF r.matching = 0 THEN 0 ELSE r.weightDiff \div r.matching
        IN (1000 * r.excess) \div normalizer + (1000 * r.disjoint) \div normalizer
           + (400 * avgWeightDiff) \div 1000
           + 300 * (HiddenCount(a) + HiddenCount(b)))))

\* compatibilityDistance(a, b), in thousandths
CompatibilityDistance(a, b) ==
    With(SortByInnovation(a.connections), LAMBDA aGenes :
    With(SortByInnovation(b.connections), LAMBDA bGenes :
    With(ScanGenes(aGenes, bGenes,
                   IF Len(aGenes) = 0 THEN 0 ELSE aGenes[Len(aGenes)].innovation,
                   IF Len(bGenes) = 0 THEN 0 ELSE bGenes[Len(bGenes)].innovation,
                   1, 1,
                   [matching |-> 0, weightDiff |-> 0, disjoint |-> 0, excess |-> 0]),
         LAMBDA r :
        LET n == Max2(Len(aGenes), Len(bGenes))
            normalizer == IF n < 20 THEN 1 ELSE n
            avgWeightDiff == IF r.matching = 0 THEN 0 ELSE r.weightDiff \div r.matching
            hiddenNodeDiff == Abs(HiddenCount(a) - HiddenCount(b))
            baseDistance == (1000 * r.excess) \div normalizer
                            + (1000 * r.disjoint) \div normalizer
                            + (400 * avgWeightDiff) \div 1000
            structuralDistance == 300 * hiddenNodeDiff
        IN baseDistance + structuralDistance)))

\* new Species(id, representative)
NewSpecies(id, representative) ==
    [id |-> id, representative |-> representative, genomes |-> <<>>, adjustedFitnessSum |-> 0]

-----------------------------------------------------------------------------
(* Population (neat/population.ts) *)

\* a missing genome (null / undefined)
NoGenome == [none |-> TRUE]

MinSpeciesTarget == 5
MaxSpeciesTarget == 12
InitialCompatibilityThreshold == 3000

\* Array.from({ length: count }, () => Genome.withHiddenNodes(init, tracker, hidden, rng));
\* with hidden = 0 the split loop does nothing and the genome is Genome.minimal's
BuildNext(st, s, hidden) ==
    With(WithHiddenNodes(st.t, hidden, s, st.k), LAMBDA r :
        [gs |-> Append(st.gs, r.g), t |-> r.t, k |-> r.k])

BuildGenomes(acc, t, s, k, count, hidden) ==
    ForEach(LAMBDA st, n : BuildNext(st, s, hidden),
            [gs |-> acc, t |-> t, k |-> k], 1, count)

\* the loop body of seedWalkingPattern for connection i
SeedAt(st, s, i) ==
    LET outputIdStart == InputCount + 1
        sinPhaseId == InputCount - 2
        conns == st.conns
        conn == conns[i]
        isLeft == \E p \in 1..Len(LegMirrorPairs) :
                      conn.to = outputIdStart + LegMirrorPairs[p][1]
        isRight == \E p \in 1..Len(LegMirrorPairs) :
                      conn.to = outputIdStart + LegMirrorPairs[p][2]
        w == 800 + (Rng(s, st.k) * 400) \div 1000
    IN IF conn.from = sinPhaseId /\ isLeft
       THEN [conns |-> [conns EXCEPT ![i].weight = w], k |-> st.k + 1]
       ELSE IF conn.from = sinPhaseId /\ isRight
       THEN [conns |-> [conns EXCEPT ![i].weight = -w], k |-> st.k + 1]
       ELSE st

SeedFrom(conns, s, k, i) ==
    ForEach(LAMBDA st, n : SeedAt(st, s, n), [conns |-> conns, k |-> k], i, Len(conns))

\* Population.seedWalkingPattern(genome, rng)
SeedWalkingPattern(g, s, k) ==
    With(SeedFrom(g.connections, s, k, 1), LAMBDA r :
        [g |-> [g EXCEPT !.connections = r.conns], k |-> r.k])

\* the walking bias of the constructor: seedWalkingPattern on a random genome
WalkingBiasNext(st, s) ==
    LET idx == FloorMul(Rng(s, st.k), Len(st.gs)) + 1 IN
    With(SeedWalkingPattern(st.gs[idx], s, st.k + 1), LAMBDA r :
        [gs |-> [st.gs EXCEPT ![idx] = r.g], k |-> r.k])

WalkingBias(gs, s, k, left) ==
    ForEach(LAMBDA st, n : WalkingBiasNext(st, s), [gs |-> gs, k |-> k], 1, left)

\* new Population({ inputCount, outputCount, config, rng })
NewPopulation(config, s) ==
    LET popSize == config.populationSize
        minimalCount == (popSize * 35) \div 100
        oneHiddenCount == (popSize * 30) \div 100
        twoHiddenCount == (popSize * 20) \div 100
        threeHiddenCount == popSize - minimalCount - oneHiddenCount - twoHiddenCount
        walkingBiasCount == (popSize * 15) \div 100
    IN
    With(BuildGenomes(<<>>, NewTracker(FirstHiddenId), s, 0, minimalCount, 0), LAMBDA b0 :
    With(BuildGenomes(b0.gs, b0.t, s, b0.k, oneHiddenCount, 1), LAMBDA b1 :
    With(BuildGenomes(b1.gs, b1.t, s, b1.k, twoHiddenCount, 2), LAMBDA b2 :
    With(BuildGenomes(b2.gs, b2.t, s, b2.k, threeHiddenCount, 3), LAMBDA b3 :
    With(WalkingBias(b3.gs, s, b3.k, walkingBiasCount), LAMBDA w :
        [tracker |-> b3.t,
         generation |-> 1,
         genomes |-> w.gs,
         species |-> <<>>,
         nextSpeciesId |-> 1,
         compatibilityThreshold |-> InitialCompatibilityThreshold])))))

\* the first species of alive whose representative is closer to g than threshold, 0 if none
FirstCompatible(alive, g, threshold) ==
    LET S == {i \in 1..Len(alive) :
                 CompatibilityDistance(g, alive[i].representative) < threshold}
    IN IF S = {} THEN 0 ELSE MinOfSet(S)

\* the loop body of speciate() for genome i; species.genomes holds the
\* positions of the member genomes in the genome list
PlaceGenome(st, gs, threshold, i) ==
    With(FirstCompatible(st.alive, gs[i], threshold), LAMBDA si :
        IF si # 0
        THEN [st EXCEPT !.alive[si].genomes = Append(@, i)]
        ELSE [alive |-> Append(st.alive,
                               [NewSpecies(st.nextSpeciesId, Clone(gs[i]))
                                   EXCEPT !.genomes = <<i>>]),
              nextSpeciesId |-> st.nextSpeciesId + 1])

PlaceGenomes(alive, nextSpeciesId, gs, threshold, i) ==
    ForEach(LAMBDA st, n : PlaceGenome(st, gs, threshold, n),
            [alive |-> alive, nextSpeciesId |-> nextSpeciesId], i, Len(gs))


\* the adjusted fitness sum and the new random representative of species i
SettleOne(st, gs, s, i) ==
    LET sp == st.alive[i]
        size == Len(sp.genomes)
        adjusted == SumSeq([m \in 1..size |-> gs[sp.genomes[m]].fitness \div size])
        rep == gs[sp.genomes[FloorMul(Rng(s, st.k), size) + 1]]
    IN [alive |-> [st.alive EXCEPT ![i].adjustedFitnessSum = adjusted,
                                   ![i].representative = Clone(rep)],
        k |-> st.k + 1]

SettleSpecies(alive, gs, s, k, i) ==
    ForEach(LAMBDA st, n : SettleOne(st, gs, s, n), [alive |-> alive, k |-> k], i, Len(alive))

\* the adjustment without its floor and ceiling
AdjustThresholdUnclamped(threshold, speciesCount) ==
    IF speciesCount < MinSpeciesTarget THEN threshold - 300
    ELSE IF speciesCount > MaxSpeciesTarget
    THEN threshold + Min2(500, 150 + (speciesCount - MaxSpeciesTarget) * 20)
    ELSE threshold

\* the threshold adjustment that ends speciate()
AdjustThreshold(threshold, speciesCount) ==
    IF speciesCount < MinSpeciesTarget THEN Max2(500, threshold - 300)
    ELSE IF speciesCount > MaxSpeciesTarget
    THEN LET overshoot == speciesCount - MaxSpeciesTarget
             adjustment == Min2(500, 150 + overshoot * 20)
         IN Min2(5000, threshold + adjustment)
    ELSE threshold

\* speciate() with a threshold that moves with Math.random
SpeciateDrawn(pop, s, k) ==
    LET threshold == pop.compatibilityThreshold + Rng(s, k) IN
    With(PlaceGenomes(<<>>, pop.nextSpeciesId, pop.genomes, threshold, 1), LAMBDA placed :
    With(SettleSpecies(placed.alive, pop.genomes, s, k, 1), LAMBDA settled :
        [pop |-> [pop EXCEPT !.species = settled.alive,
                             !.nextSpeciesId = placed.nextSpeciesId,
                             !.compatibilityThreshold =
                                 AdjustThreshold(pop.compatibilityThreshold,
                                                 Len(settled.alive))],
         k |-> settled.k]))

\* Population.speciate(); Math.random is the random source s
Speciate(pop, s, k) ==
    LET threshold == pop.compatibilityThreshold IN
    With(PlaceGenomes(<<>>, pop.nextSpeciesId, pop.genomes, threshold, 1), LAMBDA placed :
    With(SettleSpecies(placed.alive, pop.genomes, s, k, 1), LAMBDA settled :
        [pop |-> [pop EXCEPT !.species = settled.alive,
                             !.nextSpeciesId = placed.nextSpeciesId,
                             !.compatibilityThreshold =
                                 AdjustThreshold(threshold, Len(settled.alive))],
         k |-> settled.k]))

\* Population.applyFitnessSharing(stagnationLevel)
ApplyFitnessSharing(gs, stagnationLevel) ==
    IF Len(gs) < 2 THEN gs
    ELSE LET best == gs[1]
             sharingRadius == IF stagnationLevel >= 5 THEN 3000 ELSE 2500
             sharingStrength == IF stagnationLevel >= 5 THEN 450 ELSE 350
             Shared(g) ==
                 With(CompatibilityDistance(g, best), LAMBDA dist :
                     LET penalty == ((sharingRadius - dist) * sharingStrength)
                                        \div sharingRadius
                     IN IF dist < sharingRadius
                        THEN [g EXCEPT !.fitness = (@ * (1000 - penalty)) \div 1000]
                        ELSE g)
         IN [i \in 1..Len(gs) |-> IF i = 1 THEN gs[i] ELSE Shared(gs[i])]

\* options of the three mutateGenome calls of the nuclear reset
NuclearMutation ==
    [mutationRate |-> 600, addNodeProbability |-> 250, addConnectionProbability |-> 350,
     weightMutation |-> [perturbChance |-> 900, perturbScale |-> 350, resetScale |-> 1200,
                         mutationsPerGenome |-> NoCount],
     allowStructural |-> TRUE, allowToggle |-> TRUE, allowMirror |-> TRUE]

\* the options of the local search lane with the structural operators let in
LocalSearchStructural ==
    [mutationRate |-> 1000, addNodeProbability |-> 1000, addConnectionProbability |-> 1000,
     weightMutation |-> [perturbChance |-> 1000, perturbScale |-> 30, resetScale |-> 30,
                         mutationsPerGenome |-> 6],
     allowStructural |-> TRUE, allowToggle |-> TRUE, allowMirror |-> TRUE]

\* options of the mutateGenome call of the local search lane
LocalSearchMutation ==
    [mutationRate |-> 1000, addNodeProbability |-> 0, addConnectionProbability |-> 0,
     weightMutation |-> [perturbChance |-> 1000, perturbScale |-> 30, resetScale |-> 30,
                         mutationsPerGenome |-> 6],
     allowStructural |-> FALSE, allowToggle |-> FALSE, allowMirror |-> FALSE]

RefinementMutation ==
    [mutationRate |-> 1000, addNodeProbability |-> 0, addConnectionProbability |-> 0,
     weightMutation |-> [perturbChance |-> 1000, perturbScale |-> 80, resetScale |-> 80,
                         mutationsPerGenome |-> 8],
     allowStructural |-> FALSE, allowToggle |-> FALSE, allowMirror |-> FALSE]

ExplorationMutation(config, stagnation) ==
    LET structuralBoost == IF stagnation >= 4 THEN 2200
                           ELSE IF stagnation >= 3 THEN 1800
                           ELSE IF stagnation >= 2 THEN 1500
                           ELSE IF stagnation >= 1 THEN 1300 ELSE 1200
    IN [mutationRate |-> Min2(650, (config.mutationRate * 125) \div 100),
        addNodeProbability |-> Min2(350, (config.addNodeProbability * structuralBoost) \div 1000),
        addConnectionProbability |->
            Min2(450, (config.addConnectionProbability * structuralBoost) \div 1000),
        weightMutation |-> [perturbChance |-> 900, perturbScale |-> 350, resetScale |-> 1200,
                            mutationsPerGenome |-> NoCount],
        allowStructural |-> TRUE, allowToggle |-> TRUE, allowMirror |-> TRUE]

Lanes(config, stagnation) ==
    [explorationChance |-> IF stagnation >= 4 THEN 350
                           ELSE IF stagnation >= 3 THEN 300
                           ELSE IF stagnation >= 2 THEN 250
                           ELSE IF stagnation >= 1 THEN 200 ELSE 150,
     refinement |-> RefinementMutation,
     exploration |-> ExplorationMutation(config, stagnation)]

MutateTimes(g, t, opts, s, k, times) ==
    ForEach(LAMBDA st, n : MutateGenome(st.g, st.t, opts, s, st.k),
            [g |-> g, t |-> t, k |-> k], 1, times)

\* one turn of the regeneration loop of the nuclear reset; top5 and next are
\* the same array, so the clone to mutate is drawn from everything pushed so far
NuclearNext(st, s) ==
    LET k == st.k
        hiddenCount == 1 + FloorMul(Rng(s, k), 5) IN
    With(WithHiddenNodes(st.t, hiddenCount, s, k + 1), LAMBDA f :
    With(IF Rng(s, f.k) < 500 THEN SeedWalkingPattern(f.g, s, f.k + 1)
         ELSE [g |-> f.g, k |-> f.k + 1], LAMBDA seeded :
        IF Rng(s, seeded.k) < 300
        THEN LET top5 == st.next
                 elite == top5[FloorMul(Rng(s, seeded.k + 1), Len(top5)) + 1]
             IN With(MutateTimes(Clone(elite), f.t, NuclearMutation, s, seeded.k + 2, 3),
                     LAMBDA m : [next |-> Append(st.next, m.g), t |-> m.t, k |-> m.k])
        ELSE [next |-> Append(st.next, seeded.g), t |-> f.t, k |-> seeded.k + 1]))

NuclearFill(next, t, s, k, left) ==
    ForEach(LAMBDA st, n : NuclearNext(st, s), [next |-> next, t |-> t, k |-> k], 1, left)

\* one turn of the local search lane: a weight-only mutation of a clone of a top genome
LocalSearchNext(st, parents, s) ==
    LET parent == parents[FloorMul(Rng(s, st.k), Len(parents)) + 1] IN
    With(MutateGenome(Clone(parent), st.t, LocalSearchMutation, s, st.k + 1), LAMBDA m :
        [next |-> Append(st.next, m.g), t |-> m.t, k |-> m.k])

LocalSearch(next, parents, t, s, k, left) ==
    ForEach(LAMBDA st, n : LocalSearchNext(st, parents, s),
            [next |-> next, t |-> t, k |-> k], 1, left)

\* one turn of the diversity injection: a fresh genome with hidden nodes
InjectNext(st, s, stagnation) ==
    LET k == st.k
        minHidden == IF stagnation >= 3 THEN 2 ELSE 1
        maxHidden == IF stagnation >= 3 THEN 5 ELSE 4
        hiddenCount == minHidden + FloorMul(Rng(s, k), maxHidden - minHidden + 1) IN
    With(WithHiddenNodes(st.t, hiddenCount, s, k + 1), LAMBDA f :
    With(IF Rng(s, f.k) < 400 THEN SeedWalkingPattern(f.g, s, f.k + 1)
         ELSE [g |-> f.g, k |-> f.k + 1], LAMBDA seeded :
        [next |-> Append(st.next, seeded.g), t |-> f.t, k |-> seeded.k]))

Inject(next, t, s, k, stagnation, left) ==
    ForEach(LAMBDA st, n : InjectNext(st, s, stagnation),
            [next |-> next, t |-> t, k |-> k], 1, left)

\* one round of tournamentSelect
TournamentRound(st, genomes, s) ==
    With(genomes[FloorMul(Rng(s, st.k), Len(genomes)) + 1], LAMBDA g :
        [g |-> IF g.fitness > st.g.fitness THEN g ELSE st.g, k |-> st.k + 1])

TournamentFrom(best, genomes, s, k, i, rounds) ==
    ForEach(LAMBDA st, n : TournamentRound(st, genomes, s),
            [g |-> best, k |-> k], i, rounds - 1)

\* Population.tournamentSelect(genomes, rng)
TournamentSelect(genomes, s, k) ==
    TournamentFrom(genomes[FloorMul(Rng(s, k), Len(genomes)) + 1], genomes, s, k + 1,
                   1, Min2(3, Len(genomes)))

\* one child of makeOffspring: two tournaments, crossover, mutation in one lane
OffspringNext(st, survivors, lanes, s) ==
    With(TournamentSelect(survivors, s, st.k), LAMBDA a :
    With(TournamentSelect(survivors, s, a.k), LAMBDA b :
    With(Crossover(IF a.g.fitness >= b.g.fitness THEN a.g ELSE b.g,
                   IF a.g.fitness >= b.g.fitness THEN b.g ELSE a.g, s, b.k), LAMBDA c :
    With(MutateGenome(c.g, st.t,
                      IF Rng(s, c.k) < lanes.explorationChance THEN lanes.exploration
                      ELSE lanes.refinement,
                      s, c.k + 1), LAMBDA m :
        [children |-> Append(st.children, m.g), t |-> m.t, k |-> m.k]))))

OffspringFrom(children, survivors, t, lanes, s, k, left) ==
    ForEach(LAMBDA st, n : OffspringNext(st, survivors, lanes, s),
            [children |-> children, t |-> t, k |-> k], 1, left)

\* Population.makeOffspring(species, count, lanes, rng); gs is the genome list
\* the species' member positions refer to
MakeOffspring(species, gs, count, t, lanes, s, k) ==
    With(SortByFitnessDesc([m \in 1..Len(species.genomes) |-> gs[species.genomes[m]]]),
         LAMBDA pool :
        LET half == (Len(pool) + 1) \div 2
            survivors == SubSeq(pool, 1, Min2(Len(pool), Max2(2, half)))
        IN OffspringFrom(<<>>, survivors, t, lanes, s, k, count))

\* the offspring counts of evolve(): proportional shares rounded down, then one
\* more for the largest fractions until desired is reached; in the order in
\* which evolve() then visits the species (sorted by fraction, descending)
Allocations(species, desired) ==
    LET n == Len(species) IN
    With(SumSeq([i \in 1..n |-> species[i].adjustedFitnessSum]), LAMBDA sum :
    With(IF sum = 0 THEN 1000 ELSE sum, LAMBDA totalAdjusted :
    With([i \in 1..n |->
             LET num == IF totalAdjusted < 0 THEN -(species[i].adjustedFitnessSum * desired)
                        ELSE species[i].adjustedFitnessSum * desired
             IN [species |-> i, count |-> num \div Abs(totalAdjusted),
                 frac |-> num % Abs(totalAdjusted)]], LAMBDA raw :
    With(SortByKey(raw, [i \in 1..n |-> -raw[i].frac]), LAMBDA sorted :
        LET allocated == SumSeq([i \in 1..n |-> raw[i].count])
            extra == Min2(n, Max2(0, desired - allocated))
        IN [i \in 1..n |->
               IF i <= extra THEN [sorted[i] EXCEPT !.count = @ + 1] ELSE sorted[i]]))))

\* the offspring of the species of allocation i, pushed onto next
ReproduceAt(st, allocations, species, gs, lanes, s, i) ==
    IF allocations[i].count <= 0 THEN st
    ELSE With(MakeOffspring(species[allocations[i].species], gs, allocations[i].count,
                            st.t, lanes, s, st.k),
              LAMBDA kids : [next |-> st.next \o kids.children, t |-> kids.t, k |-> kids.k])

Reproduce(next, allocations, species, gs, t, lanes, s, i) ==
    ForEach(LAMBDA st, n : ReproduceAt(st, allocations, species, gs, lanes, s.s, n),
            [next |-> next, t |-> t, k |-> s.k], i, Len(allocations))

\* one turn of while (next.length < populationSize): a mutated clone of a random genome
FallbackNext(st, gs, lanes, s, populationSize) ==
    IF Len(st.next) >= populationSize THEN st
    ELSE LET k == st.k
             g == gs[FloorMul(Rng(s, k), Len(gs)) + 1]
         IN With(MutateGenome(Clone(g), st.t,
                              IF Rng(s, k + 1) < lanes.explorationChance
                              THEN lanes.exploration ELSE lanes.refinement,
                              s, k + 2),
                 LAMBDA m : [next |-> Append(st.next, m.g), t |-> m.t, k |-> m.k])

FallbackFill(next, gs, t, lanes, s, k, populationSize) ==
    ForEach(LAMBDA st, n : FallbackNext(st, gs, lanes, s, populationSize),
            [next |-> next, t |-> t, k |-> k], 1, populationSize - Len(next))

\* the genome list sorted, discounted at every stagnation level, sorted again
RankedShared(gs, stagnation) ==
    With(SortByFitnessDesc(gs), LAMBDA sorted :
        SortByFitnessDesc(ApplyFitnessSharing(sorted, stagnation)))

\* the genome list of evolve() when it reaches speciate(): sorted by fitness,
\* discounted by similarity to the best at stagnation >= 4, sorted again
Ranked(gs, stagnation) ==
    With(SortByFitnessDesc(gs), LAMBDA sorted :
        SortByFitnessDesc(IF stagnation >= 4 THEN ApplyFitnessSharing(sorted, stagnation)
                          ELSE sorted))

WithHallOfFame(next, config) ==
    IF config.hallOfFameGenome # NoGenome THEN Append(next, Clone(config.hallOfFameGenome))
    ELSE next

\* the nuclear reset branch of evolve() (stagnation >= 5)
NuclearReset(pop, config, s, k) ==
    LET top5 == [i \in 1..Min2(5, Len(pop.genomes)) |-> Clone(pop.genomes[i])] IN
    With(WithHallOfFame(top5, config), LAMBDA next :
    With(NuclearFill(next, pop.tracker, s, k, Max2(0, config.populationSize - Len(next))),
         LAMBDA f :
        [pop EXCEPT !.genomes = f.next, !.tracker = f.t, !.generation = @ + 1]))

LocalSearchPercent(stagnation) ==
    IF stagnation >= 4 THEN 25
    ELSE IF stagnation >= 3 THEN 22
    ELSE IF stagnation >= 2 THEN 18
    ELSE IF stagnation >= 1 THEN 12 ELSE 6

InjectPercent(config, stagnation) ==
    IF stagnation >= 4 THEN 25
    ELSE IF stagnation >= 3 THEN 18
    ELSE IF stagnation >= 2 THEN 12
    ELSE IF stagnation >= 1 THEN 8
    ELSE IF config.injectDiversity THEN 6 ELSE 0

\* elites taken from the second ranked genome on
ElitesWithoutBest(gs, config) ==
    [i \in 1..Min2(Len(gs) - 1, Max2(2, config.elitism)) |-> Clone(gs[i + 1])]

\* the elites of evolve(): clones of the first max(2, elitism) ranked genomes
Elites(gs, config) ==
    LET minElitism == 2
        effectiveElitism == Max2(minElitism, config.elitism)
        count == Min2(Len(gs), Max2(0, Min2(effectiveElitism, config.populationSize)))
    IN [i \in 1..count |-> Clone(gs[i])]

\* evolve() below the nuclear level, after speciate(), up to the offspring
\* counts: the genomes pushed so far (elites, hall of fame, local search,
\* injection), the slots left for offspring and their allocation to species
OffspringPlan(pop, config, stagnation, s, k) ==
    LET gs == pop.genomes
        localSearchTarget == (config.populationSize * LocalSearchPercent(stagnation)) \div 100
        injectCount == (config.populationSize * InjectPercent(config, stagnation)) \div 100
        parents == SubSeq(gs, 1, Min2(5, Len(gs)))
    IN
    With(WithHallOfFame(Elites(gs, config), config), LAMBDA next0 :
    With(LocalSearch(next0, parents, pop.tracker, s, k,
                     Min2(localSearchTarget, Max2(0, config.populationSize - Len(next0)))),
         LAMBDA l :
    With(Inject(l.next, l.t, s, l.k, stagnation, injectCount), LAMBDA j :
        [next |-> j.next, t |-> j.t, k |-> j.k,
         desired |-> config.populationSize - Len(j.next),
         allocations |-> Allocations(pop.species, config.populationSize - Len(j.next))])))

\* evolve() below the nuclear level, after speciate()
Reproduction(pop, config, stagnation, s, k) ==
    LET gs == pop.genomes IN
    With(OffspringPlan(pop, config, stagnation, s, k), LAMBDA j :
    With(Lanes(config, stagnation), LAMBDA lanes :
    With(Reproduce(j.next, j.allocations, pop.species, gs, j.t, lanes,
                   [s |-> s, k |-> j.k], 1), LAMBDA r :
    With(FallbackFill(r.next, gs, r.t, lanes, s, r.k, config.populationSize), LAMBDA f :
        [pop EXCEPT !.genomes = IF Len(f.next) > config.populationSize
                                THEN SubSeq(f.next, 1, config.populationSize)
                                ELSE f.next,
                    !.tracker = f.t, !.generation = @ + 1]))))

\* evolve() that leaves the generation counter as it was
EvolveSameGeneration(pop, config, s) ==
    LET stagnation == config.stagnationLevel IN
    With(Speciate([pop EXCEPT !.genomes = Ranked(pop.genomes, stagnation)], s, 0),
         LAMBDA sp :
        [(IF stagnation >= 5 THEN NuclearReset(sp.pop, config, s, sp.k)
          ELSE Reproduction(sp.pop, config, stagnation, s, sp.k))
         EXCEPT !.generation = pop.generation])

\* Population.evolve(config, rng), rng = Math.random = the random source s
Evolve(pop, config, s) ==
    LET stagnation == config.stagnationLevel IN
    With(Speciate([pop EXCEPT !.genomes = Ranked(pop.genomes, stagnation)], s, 0),
         LAMBDA sp :
        IF stagnation >= 5 THEN NuclearReset(sp.pop, config, s, sp.k)
        ELSE Reproduction(sp.pop, config, stagnation, s, sp.k))

-----------------------------------------------------------------------------
(* Network (neat/genome.ts) *)

NoNetwork == [none |-> TRUE]

\* position of the node with this id in the ordered node list, 0 if absent
\* (Map.set in list order: the last node of an id wins)
NodeIndexById(orderedNodes, id) ==
    LET S == {i \in 1..Len(orderedNodes) : orderedNodes[i].id = id}
    IN IF S = {} THEN 0 ELSE MaxOfSet(S)

\* Network.fromGenome(genome)
FromGenome(g) ==
    \* sort by (layer, id): one key, ids stay far below the multiplier
    With(SortByKey(g.nodes,
                   [i \in 1..Len(g.nodes) |-> g.nodes[i].layer * 100000 + g.nodes[i].id]),
         LAMBDA orderedNodes :
        LET n == Len(g.nodes)
            Idx(id) == NodeIndexById(orderedNodes, id)
            usable == SelectSeq(g.connections,
                                LAMBDA c : c.enabled /\ Idx(c.to) # 0 /\ Idx(c.from) # 0)
            incoming == [i \in 1..n |->
                            LET mine == SelectSeq(usable, LAMBDA c : Idx(c.to) = i)
                            IN [e \in 1..Len(mine) |->
                                   [fromIndex |-> Idx(mine[e].from),
                                    weight |-> mine[e].weight]]]
            present == SelectSeq(OutputIds, LAMBDA id : Idx(id) # 0)
            presentIn == SelectSeq(InputIds, LAMBDA id : Idx(id) # 0)
        IN [orderedNodes |-> orderedNodes,
            incoming |-> incoming,
            outputNodeIndices |-> [i \in 1..Len(present) |-> Idx(present[i])],
            biasIndex |-> IF Idx(BiasId) = 0 THEN -1 ELSE Idx(BiasId),
            inputIndices |-> [i \in 1..Len(presentIn) |-> Idx(presentIn[i])],
            values |-> [i \in 1..n |-> 0]])

\* the sum passed on as it is, without squashing
TanhLinear(x) == x

\* Math.tanh on thousandths: the Pade approximant x(27 + x^2)/(27 + 9x^2),
\* which is odd, increasing and within 0.03 of tanh, and reaches +-1 at +-3
Tanh(x) ==
    IF x >= 3000 THEN 1000
    ELSE IF x <= -3000 THEN -1000
    ELSE LET a == (27000000 + x * x) \div 1000
             b == (27000000 + 9 * x * x) \div 1000
             num == x * a
             q == IF num >= 0 THEN num \div b ELSE -((-num) \div b)
         IN Clamp(q, -1000, 1000)

\* the value of node i of the evaluation order from the values before it
PropagateAt(net, values, i) ==
    IF net.orderedNodes[i].type = "input" \/ net.orderedNodes[i].type = "bias" THEN values
    ELSE LET edges == net.incoming[i]
             sum == SumSeq([e \in 1..Len(edges) |->
                               (values[edges[e].fromIndex] * edges[e].weight)])
             scaled == IF sum >= 0 THEN sum \div 1000 ELSE -((-sum) \div 1000)
         IN [values EXCEPT ![i] = Tanh(scaled)]

Propagate(net, values, i) ==
    ForEach(LAMBDA st, n : PropagateAt(net, st, n), values, i, Len(net.orderedNodes))

\* the body of Network.activate(inputs) after the length check
Forward(net, inputs) ==
    LET zero == [i \in 1..Len(net.values) |-> 0]
        withInputs == [i \in 1..Len(zero) |->
                          LET S == {j \in 1..Len(net.inputIndices) : net.inputIndices[j] = i}
                          IN IF S = {} THEN zero[i] ELSE inputs[MaxOfSet(S)]]
        withBias == IF net.biasIndex >= 1 THEN [withInputs EXCEPT ![net.biasIndex] = 1000]
                    ELSE withInputs
    IN With(Propagate(net, withBias, 1), LAMBDA values :
           [net |-> [net EXCEPT !.values = values],
            error |-> FALSE,
            outputs |-> [i \in 1..Len(net.outputNodeIndices) |->
                            values[net.outputNodeIndices[i]]]])

\* a network that cuts or zero-fills the vector to its input count
ActivateLenient(net, inputs) ==
    Forward(net, [i \in 1..Len(net.inputIndices) |->
                     IF i <= Len(inputs) THEN inputs[i] ELSE 0])

\* Network.activate(inputs): the network afterwards and either the outputs or the error
Activate(net, inputs) ==
    IF Len(inputs) # Len(net.inputIndices)
    THEN [net |-> net, error |-> TRUE, outputs |-> <<>>]
    ELSE Forward(net, inputs)

-----------------------------------------------------------------------------
(* SimulationRunner (simulation/runner.ts) *)
(*                                                                         *)
(* A genome the runner refers to (bestGenomeThisGen, ...) is one of the    *)
(* objects of population.genomes and is modelled by its 0-based position   *)
(* there; the list is not reordered between an evaluation and evolve().    *)
(* evalTime counts simulation steps (dtSeconds each); MaxSteps is          *)
(* evaluation.maxSeconds in steps.  Distances are in thousandths of a      *)
(* metre.  One Tick is one simulation step (speed 1).  Fields that only    *)
(* feed the display or the log are left out.                               *)

NoIndex == -1
NegInfinity == -1000000000
NoCompare == [none |-> TRUE]
NoSession == [none |-> TRUE]
ComparisonGenerations == <<1, 10, 25, 50, 100, 200>>
NuclearThreshold == 70

\* defaultConfig.neat of the store, with the population size of the model
StoreConfig(populationSize) ==
    [populationSize |-> populationSize,
     mutationRate |-> 400,
     addNodeProbability |-> 120,
     addConnectionProbability |-> 200,
     compatibilityThreshold |-> 1500,
     elitism |-> 3,
     injectDiversity |-> FALSE,
     stagnationLevel |-> 0,
     hallOfFameGenome |-> NoGenome]

\* createWorld + createHuman: a standing creature at its start position
NewWorld == [fallen |-> FALSE, distance |-> 0]

\* the field initialisers of SimulationRunner
NewRunner ==
    [currentGenomeIndex |-> 0,
     currentNetwork |-> NoIndex,
     evalTime |-> 0,
     mode |-> "train",
     resumeGenomeIndex |-> NoIndex,
     replayBestDone |-> FALSE,
     isReplayingBest |-> FALSE,
     compareMode |-> NoCompare,
     generationSnapshots |-> <<>>,
     bestThisGen |-> 0,
     bestDistanceThisGenFinal |-> NegInfinity,
     bestDistanceGenomeThisGen |-> NoIndex,
     bestDistanceEverFinal |-> 0,
     bestDistanceGenomeEver |-> NoGenome,
     bestFitnessThisGen |-> NegInfinity,
     bestGenomeThisGen |-> NoIndex,
     bestDistanceEver |-> 0,
     generationsWithoutImprovement |-> 0]

\* what the properties need to know about the current generation and about
\* the last call of evolve()
NewGenerationHistory ==
    [scored |-> {}, skipped |-> {}, episodeFitness |-> <<>>, order |-> <<>>]

NoEvolve == [called |-> FALSE]

GenomeAt(p, index) == p.genomes[index + 1]

\* startEvaluation(): a fresh world and the network of the current genome
StartEvaluation(st) ==
    [st EXCEPT !.w = NewWorld,
               !.r.evalTime = 0,
               !.r.currentNetwork = st.r.currentGenomeIndex]

\* startEvaluationForReplay(genome): forGenome is the position of the genome,
\* or NoIndex - 1 for the stored all-time best
AllTimeBest == NoIndex - 1
StartEvaluationForReplay(st, forGenome) ==
    [st EXCEPT !.w = NewWorld,
               !.r.evalTime = 0,
               !.r.currentNetwork = forGenome]

StagnationLevel(generationsWithoutImprovement) ==
    IF generationsWithoutImprovement >= NuclearThreshold THEN 5
    ELSE IF generationsWithoutImprovement >= 40 THEN 4
    ELSE IF generationsWithoutImprovement >= 20 THEN 3
    ELSE IF generationsWithoutImprovement >= 10 THEN 2
    ELSE IF generationsWithoutImprovement >= 5 THEN 1 ELSE 0

CounterKept(doNuclearReset, stagnant) == stagnant

\* generationsWithoutImprovement after evolve(): cleared after a nuclear reset
CounterAfterEvolve(doNuclearReset, stagnant) == IF doNuclearReset THEN 0 ELSE stagnant

\* actuallyFinishGeneration(); s is Math.random during evolve()
ActuallyFinishGeneration(st, neat, s) ==
    LET r == st.r
        p == st.p
        bestGenome == IF r.bestGenomeThisGen # NoIndex THEN GenomeAt(p, r.bestGenomeThisGen)
                      ELSE GenomeAt(p, 0)
        improved == r.bestThisGen > r.bestDistanceEver + 50
        bestDistanceEver == IF improved THEN r.bestThisGen ELSE r.bestDistanceEver
        stagnant == IF improved THEN 0 ELSE r.generationsWithoutImprovement + 1
        newEver == r.bestDistanceThisGenFinal > r.bestDistanceEverFinal
                   /\ r.bestDistanceGenomeThisGen # NoIndex
        bestDistanceEverFinal == IF newEver THEN r.bestDistanceThisGenFinal
                                 ELSE r.bestDistanceEverFinal
        bestDistanceGenomeEver == IF newEver THEN Clone(GenomeAt(p, r.bestDistanceGenomeThisGen))
                                  ELSE r.bestDistanceGenomeEver
        snapshots == IF p.generation \in Range(ComparisonGenerations)
                     THEN (p.generation :> Clone(bestGenome)) @@ r.generationSnapshots
                     ELSE r.generationSnapshots
        doNuclearReset == stagnant >= NuclearThreshold
        stagnationLevel == StagnationLevel(stagnant)
        config == [neat EXCEPT
                       !.injectDiversity = stagnationLevel >= 1,
                       !.stagnationLevel = stagnationLevel,
                       !.hallOfFameGenome = bestDistanceGenomeEver]
        evolved == Evolve(p, config, s)
        r1 == [r EXCEPT !.bestDistanceEver = bestDistanceEver,
                        !.generationsWithoutImprovement =
                            CounterAfterEvolve(doNuclearReset, stagnant),
                        !.bestDistanceEverFinal = bestDistanceEverFinal,
                        !.bestDistanceGenomeEver = bestDistanceGenomeEver,
                        !.generationSnapshots = snapshots,
                        !.currentGenomeIndex = 0,
                        !.bestThisGen = 0,
                        !.bestDistanceThisGenFinal = NegInfinity,
                        !.bestDistanceGenomeThisGen = NoIndex,
                        !.bestFitnessThisGen = NegInfinity,
                        !.bestGenomeThisGen = NoIndex]
        h1 == [st.h EXCEPT
                  !.evolve = [called |-> TRUE,
                              generation |-> p.generation,
                              stagnationLevel |-> stagnationLevel,
                              before |-> stagnant,
                              after |-> r1.generationsWithoutImprovement,
                              previousLevel |-> IF st.h.evolve.called
                                                THEN st.h.evolve.stagnationLevel ELSE NoIndex,
                              populationSize |-> config.populationSize,
                              elitism |-> config.elitism,
                              hallOfFame |-> config.hallOfFameGenome # NoGenome,
                              fitness |-> [i \in 1..Len(p.genomes) |-> p.genomes[i].fitness],
                              sinceNuclear |->
                                  IF ~st.h.evolve.called THEN NoIndex
                                  ELSE IF st.h.evolve.stagnationLevel = 5 THEN 1
                                  ELSE IF st.h.evolve.sinceNuclear = NoIndex THEN NoIndex
                                  ELSE st.h.evolve.sinceNuclear + 1,
                              scored |-> st.h.generation.scored,
                              skipped |-> st.h.generation.skipped,
                              order |-> st.h.generation.order,
                              episodeFitness |-> st.h.generation.episodeFitness],
                  !.generation = NewGenerationHistory]
    IN StartEvaluation([st EXCEPT !.p = evolved, !.r = r1, !.h = h1])

\* startBestReplay(): the best genome of the generation runs once more, shown
StartBestReplay(st) ==
    IF st.r.bestGenomeThisGen = NoIndex THEN st
    ELSE StartEvaluationForReplay(
             [st EXCEPT !.r.isReplayingBest = TRUE,
                        !.r.currentGenomeIndex = st.r.bestGenomeThisGen],
             st.r.bestGenomeThisGen)

\* advanceGenomeOrGeneration()
AdvanceGenomeOrGeneration(st, showBestOnly, neat, s) ==
    IF st.r.isReplayingBest
    THEN ActuallyFinishGeneration([st EXCEPT !.r.isReplayingBest = FALSE], neat, s)
    ELSE LET next == [st EXCEPT !.r.currentGenomeIndex = @ + 1]
         IN IF next.r.currentGenomeIndex >= Len(st.p.genomes)
            THEN IF showBestOnly /\ st.r.bestGenomeThisGen # NoIndex
                 THEN StartBestReplay(next)
                 ELSE ActuallyFinishGeneration(next, neat, s)
            ELSE StartEvaluation(next)

EpisodeOverLate(mode, evalTime, fallen, maxSteps) ==
    fallen \/ (mode = "train" /\ evalTime > maxSteps)

\* the end-of-episode test of stepOnce(), after the step has advanced evalTime
EpisodeOver(mode, evalTime, fallen, maxSteps) ==
    fallen \/ (mode = "train" /\ evalTime >= maxSteps)

\* stepOnce(): one physics step of the evaluated genome.  fallen and distance
\* are what the physics engine reports after the step, fitness is the value
\* of computeFitness for the finished episode.
StepOnce(st, showBestOnly, neat, maxSteps, fallen, distance, fitness, s) ==
    LET r == st.r
        index == r.currentGenomeIndex
        stepped == [st EXCEPT !.w = [fallen |-> fallen, distance |-> distance],
                              !.r.evalTime = @ + 1,
                              !.r.bestThisGen = Max2(@, distance)]
    IN IF ~EpisodeOver(r.mode, r.evalTime + 1, fallen, maxSteps) THEN stepped
       ELSE IF r.mode # "train" THEN [stepped EXCEPT !.r.replayBestDone = TRUE]
       ELSE LET farther == distance > r.bestDistanceThisGenFinal
                fitter == fitness > r.bestFitnessThisGen
                done == [stepped EXCEPT
                    !.p.genomes[index + 1].fitness = fitness,
                    !.r.bestDistanceThisGenFinal = IF farther THEN distance ELSE @,
                    !.r.bestDistanceGenomeThisGen = IF farther THEN index ELSE @,
                    !.r.bestFitnessThisGen = IF fitter THEN fitness ELSE @,
                    !.r.bestGenomeThisGen = IF fitter THEN index ELSE @,
                    !.h.generation.scored = @ \cup {index},
                    !.h.generation.episodeFitness = (index :> fitness) @@ @,
                    !.h.generation.order = Append(@, index)]
            IN AdvanceGenomeOrGeneration(done, showBestOnly, neat, s)

\* a replay step that moves on to the next genome when the creature falls
StepReplayBestAdvancing(st, fallen, distance) ==
    IF st.r.replayBestDone THEN st
    ELSE [st EXCEPT !.w = [fallen |-> fallen, distance |-> distance],
                    !.r.evalTime = @ + 1,
                    !.r.replayBestDone = fallen,
                    !.r.currentGenomeIndex = IF fallen THEN @ + 1 ELSE @]

\* stepReplayBestOnce()
StepReplayBestOnce(st, fallen, distance) ==
    IF st.r.replayBestDone THEN st
    ELSE [st EXCEPT !.w = [fallen |-> fallen, distance |-> distance],
                    !.r.evalTime = @ + 1,
                    !.r.replayBestDone = fallen]

\* stepCompareOnce(): falls is the set of the items whose creature is down
\* after this step
StepCompareOnce(st, falls) ==
    IF st.r.compareMode = NoCompare THEN st
    ELSE [st EXCEPT !.r.compareMode.items =
            [i \in 1..Len(@) |->
                IF @[i].session = NoSession \/ @[i].session.done THEN @[i]
                ELSE [@[i] EXCEPT !.session = [evalTime |-> @.evalTime + 1,
                                               done |-> i \in falls]]]]

\* resumeTraining()
ResumeTraining(st) ==
    LET r == st.r
    IN StartEvaluation([st EXCEPT
           !.r.mode = "train",
           !.r.compareMode = NoCompare,
           !.r.replayBestDone = FALSE,
           !.r.isReplayingBest = FALSE,
           !.r.currentGenomeIndex = IF r.resumeGenomeIndex # NoIndex
                                    THEN r.resumeGenomeIndex ELSE @,
           !.r.resumeGenomeIndex = NoIndex])

\* toggleCompareGenerations()
ToggleCompareGenerations(st) ==
    IF st.r.mode = "compare" THEN ResumeTraining(st)
    ELSE LET snaps == st.r.generationSnapshots
             items == [i \in 1..Len(ComparisonGenerations) |->
                         [gen |-> ComparisonGenerations[i],
                          session |-> IF ComparisonGenerations[i] \in DOMAIN snaps
                                      THEN [evalTime |-> 0, done |-> FALSE]
                                      ELSE NoSession]]
         IN [st EXCEPT !.r.resumeGenomeIndex = st.r.currentGenomeIndex,
                       !.r.mode = "compare",
                       !.r.replayBestDone = FALSE,
                       !.r.isReplayingBest = FALSE,
                       !.r.compareMode = [items |-> items]]

\* replayAllTimeBest()
ReplayAllTimeBest(st) ==
    IF st.r.bestDistanceGenomeEver = NoGenome THEN st
    ELSE IF st.r.mode = "replayBest" THEN ResumeTraining(st)
    ELSE StartEvaluationForReplay(
             [st EXCEPT !.r.resumeGenomeIndex = st.r.currentGenomeIndex,
                        !.r.mode = "replayBest",
                        !.r.compareMode = NoCompare,
                        !.r.replayBestDone = FALSE,
                        !.r.isReplayingBest = TRUE],
             AllTimeBest)

\* the loop of skipToNextGeneration()
MarkSkipped(genomes, from) ==
    [i \in 1..Len(genomes) |->
        IF i - 1 >= from THEN [genomes[i] EXCEPT !.fitness = -1000] ELSE genomes[i]]

\* skipToNextGeneration()
SkipToNextGeneration(st, neat, s) ==
    ActuallyFinishGeneration(
        [st EXCEPT !.r.mode = "train",
                   !.r.compareMode = NoCompare,
                   !.r.replayBestDone = FALSE,
                   !.r.resumeGenomeIndex = NoIndex,
                   !.p.genomes = MarkSkipped(@, st.r.currentGenomeIndex),
                   !.h.generation.skipped =
                       {i \in 0..(Len(st.p.genomes) - 1) : i >= st.r.currentGenomeIndex},
                   !.r.isReplayingBest = FALSE],
        neat, s)

\* reset(): a new population and fresh counters; isReplayingBest is not among
\* the fields reset() assigns
Reset(st, neat, s) ==
    StartEvaluation(
        [p |-> NewPopulation(neat, s),
         r |-> [NewRunner EXCEPT !.isReplayingBest = st.r.isReplayingBest],
         w |-> st.w,
         h |-> [st.h EXCEPT !.generation = NewGenerationHistory, !.evolve = NoEvolve]])

-----------------------------------------------------------------------------
(* The running application: the animation frame callback and the buttons *)

PopSize == 2
MaxSteps == 2
MaxReplaySteps == 3
MaxGeneration == 2
MaxPresses == 2

DistVals == {0, 1000}
FitVals == {2000, 5000}
RunnerSources == {<<400, 600, 100>>}

NoLab == [none |-> TRUE]
NewStore == [playing |-> TRUE, showBestOnly |-> FALSE]
NewHistory ==
    [generation |-> NewGenerationHistory, evolve |-> NoEvolve, presses |-> 0,
     entered |-> NoIndex]

Cur == [p |-> population, r |-> runner, w |-> world, h |-> hist]

\* the genome index that was current when the mode the runner is left in was
\* entered; NoIndex while training
EnteredAt(mode) ==
    IF mode = "train" THEN NoIndex
    ELSE IF mode # runner.mode THEN runner.currentGenomeIndex
    ELSE hist.entered

Becomes(st, outcome) ==
    /\ population' = st.p
    /\ runner' = st.r
    /\ world' = st.w
    /\ hist' = [st.h EXCEPT !.entered = EnteredAt(st.r.mode)]
    /\ ret' = outcome

\* a button or checkbox is used: one more of the presses the run is bounded to
Pressed(st) == [st EXCEPT !.h.presses = @ + 1]

\* what a step did, as the properties below observe it
Outcome(op, st, fallen) ==
    [op |-> op,
     mode |-> runner.mode,
     genome |-> runner.currentGenomeIndex,
     replaying |-> runner.isReplayingBest,
     evalTime |-> runner.evalTime + 1,
     fallen |-> fallen,
     ended |-> st.h # hist \/ st.r.replayBestDone # runner.replayBestDone,
     evolved |-> st.h.evolve # hist.evolve]

RunnerInit ==
    /\ store = NewStore
    /\ lab = NoLab
    /\ \E s \in RunnerSources :
          LET st == Reset([r |-> NewRunner, w |-> NewWorld, h |-> NewHistory],
                          StoreConfig(PopSize), s)
          IN /\ population = st.p
             /\ runner = st.r
             /\ world = st.w
             /\ hist = st.h
    /\ ret = [op |-> "reset"]

\* tick() while training: one stepOnce()
Train(maxGeneration, distances, fitnesses) ==
    /\ store.playing
    /\ runner.mode = "train"
    /\ population.generation < maxGeneration
    /\ \E fallen \in BOOLEAN, distance \in distances, fitness \in fitnesses,
          s \in RunnerSources :
          LET st == StepOnce(Cur, store.showBestOnly, StoreConfig(PopSize), MaxSteps,
                             fallen, distance, fitness, s)
          IN Becomes(st, Outcome("stepOnce", st, fallen))
    /\ UNCHANGED <<store, lab>>

TickTrain == Train(MaxGeneration, DistVals, FitVals)

\* tick() while the all-time best is replayed: one stepReplayBestOnce()
TickReplayBest ==
    /\ store.playing
    /\ runner.mode = "replayBest"
    /\ ~runner.replayBestDone
    /\ runner.evalTime < MaxReplaySteps
    /\ \E fallen \in BOOLEAN, distance \in DistVals :
          LET st == StepReplayBestOnce(Cur, fallen, distance)
          IN Becomes(st, Outcome("stepReplayBestOnce", st, fallen))
    /\ UNCHANGED <<store, lab>>

LiveSessions ==
    IF runner.compareMode = NoCompare THEN {}
    ELSE {i \in 1..Len(runner.compareMode.items) :
             /\ runner.compareMode.items[i].session # NoSession
             /\ ~runner.compareMode.items[i].session.done}

\* tick() while generations are compared: one stepCompareOnce()
TickCompare ==
    /\ store.playing
    /\ runner.mode = "compare"
    /\ LiveSessions # {}
    /\ \A i \in LiveSessions : runner.compareMode.items[i].session.evalTime < MaxReplaySteps
    /\ \E falls \in SUBSET LiveSessions :
          LET st == StepCompareOnce(Cur, falls)
          IN Becomes(st, [op |-> "stepCompareOnce", falls |-> falls,
                          live |-> LiveSessions,
                          after |-> st.r.compareMode.items])
    /\ UNCHANGED <<store, lab>>

\* the Reset button
OnReset ==
    /\ hist.presses < MaxPresses
    /\ \E s \in RunnerSources :
          Becomes(Pressed(Reset(Cur, StoreConfig(PopSize), s)), [op |-> "reset"])
    /\ UNCHANGED <<store, lab>>

\* the Skip Gen button
SkipGeneration(maxGeneration, counted) ==
    /\ population.generation < maxGeneration
    /\ \E s \in RunnerSources :
          LET skipped == SkipToNextGeneration(Cur, StoreConfig(PopSize), s)
              st == IF counted THEN Pressed(skipped) ELSE skipped
          IN Becomes(st, [op |-> "skipToNextGeneration",
                          from |-> runner.currentGenomeIndex,
                          mode |-> runner.mode,
                          replaying |-> runner.isReplayingBest])
    /\ UNCHANGED <<store, lab>>

OnSkipGeneration ==
    /\ hist.presses < MaxPresses
    /\ SkipGeneration(MaxGeneration, TRUE)

\* the Replay Best button
OnReplayBest ==
    /\ hist.presses < MaxPresses
    /\ Becomes(Pressed(ReplayAllTimeBest(Cur)),
               [op |-> "replayAllTimeBest", from |-> runner.mode,
                entered |-> hist.entered])
    /\ UNCHANGED <<store, lab>>

\* the Compare Generations button
OnCompareGenerations ==
    /\ hist.presses < MaxPresses
    /\ Becomes(Pressed(ToggleCompareGenerations(Cur)),
               [op |-> "toggleCompareGenerations", from |-> runner.mode,
                entered |-> hist.entered])
    /\ UNCHANGED <<store, lab>>

\* the Best Only checkbox
SetShowBestOnly ==
    /\ hist.presses < MaxPresses
    /\ store' = [store EXCEPT !.showBestOnly = ~@]
    /\ hist' = [hist EXCEPT !.presses = @ + 1]
    /\ UNCHANGED <<population, runner, world, lab, ret>>

RunnerNext ==
    \/ TickTrain
    \/ TickReplayBest
    \/ TickCompare
    \/ OnReset
    \/ OnSkipGeneration
    \/ OnReplayBest
    \/ OnCompareGenerations
    \/ SetShowBestOnly

SpecRunner == RunnerInit /\ [][RunnerNext]_vars

-----------------------------------------------------------------------------
(* A long training run of a creature that never gets anywhere: every         *)
(* generation is one more without improvement.  Generations end by the       *)
(* episodes running out or by Skip Gen (not counted against MaxPresses).     *)

StagMaxGeneration == 141
StagDistVals == {0}
StagFitVals == {2000}

StagTick == Train(StagMaxGeneration, StagDistVals, StagFitVals)
StagSkip == SkipGeneration(StagMaxGeneration, FALSE)

StagNext ==
    \/ StagTick
    \/ StagSkip

SpecStag == RunnerInit /\ [][StagNext]_vars

-----------------------------------------------------------------------------
(* The library used directly: one InnovationTracker, genomes built and       *)
(* mutated through it, and getInnovation calls of the caller's own           *)

MaxLabGenomes == 2
MaxLabHidden == 1
MaxCalls == 2

LabSources == {<<0>>, <<999, 0>>}
LabPairs == {<<0, InputCount + 1>>, <<BiasId, InputCount + 1>>, <<0, FirstHiddenId>>}

NoPopulation == [none |-> TRUE]

Idle ==
    /\ population = NoPopulation
    /\ runner = NewRunner
    /\ store = NewStore
    /\ world = NewWorld

NewLab ==
    [tracker |-> NewTracker(FirstHiddenId), genomes |-> <<>>, network |-> NoNetwork]

\* the splits a genome was given, as entries of the split log
SplitLog(genome, used) ==
    [i \in 1..Len(used) |->
        [kind |-> "split", genome |-> genome, innovation |-> used[i].innovation,
         split |-> used[i].split]]

\* the positions of the getInnovation calls and of the splits in the log
Calls == {i \in 1..Len(hist.log) : hist.log[i].kind = "call"}
Splits == {i \in 1..Len(hist.log) : hist.log[i].kind = "split"}

TrackerInit ==
    /\ Idle
    /\ lab = NewLab
    /\ hist = [log |-> <<>>]
    /\ ret = [op |-> "new"]

\* Genome.minimal(init, tracker, rng)
LabMinimal ==
    /\ Len(lab.genomes) < MaxLabGenomes
    /\ \E s \in LabSources :
          LET m == Minimal(lab.tracker, s, 0)
          IN /\ lab' = [lab EXCEPT !.tracker = m.t, !.genomes = Append(@, m.g)]
             /\ ret' = [op |-> "minimal"]
    /\ UNCHANGED <<population, runner, store, world, hist>>

\* Genome.withHiddenNodes(init, tracker, hiddenCount, rng)
LabWithHiddenNodes ==
    /\ Len(lab.genomes) < MaxLabGenomes
    /\ \E s \in LabSources, hiddenCount \in 1..MaxLabHidden :
          LET m == WithHiddenNodes(lab.tracker, hiddenCount, s, 0)
          IN /\ lab' = [lab EXCEPT !.tracker = m.t, !.genomes = Append(@, m.g)]
             /\ hist' = [hist EXCEPT !.log = @ \o SplitLog(Len(lab.genomes) + 1, m.used)]
             /\ ret' = [op |-> "withHiddenNodes"]
    /\ UNCHANGED <<population, runner, store, world>>

\* mutateAddNode(genome, tracker, rng) on one of the genomes
LabMutateAddNode ==
    /\ \E i \in 1..Len(lab.genomes), s \in LabSources :
          /\ HiddenCount(lab.genomes[i]) < MaxLabHidden
          /\ LET m == MutateAddNode(lab.genomes[i], lab.tracker, s, 0)
             IN /\ lab' = [lab EXCEPT !.tracker = m.t, !.genomes[i] = m.g]
                /\ hist' = [hist EXCEPT !.log = @ \o SplitLog(i, m.used)]
                /\ ret' = [op |-> "mutateAddNode"]
    /\ UNCHANGED <<population, runner, store, world>>

\* tracker.getInnovation(from, to) called by the user of the library
LabGetInnovation ==
    /\ Cardinality(Calls) < MaxCalls
    /\ \E pair \in LabPairs :
          LET r == GetInnovation(lab.tracker, pair[1], pair[2])
              call == [kind |-> "call", from |-> pair[1], to |-> pair[2], id |-> r.id,
                       issued |-> lab.tracker.nextInnovation - 1,
                       known |-> \/ \E i \in Calls : /\ hist.log[i].from = pair[1]
                                                     /\ hist.log[i].to = pair[2]
                                 \/ \E g \in Range(lab.genomes) :
                                       HasConnection(g.connections, pair[1], pair[2])]
          IN /\ lab' = [lab EXCEPT !.tracker = r.t]
             /\ hist' = [hist EXCEPT !.log = Append(@, call)]
             /\ ret' = [op |-> "getInnovation", id |-> r.id]
    /\ UNCHANGED <<population, runner, store, world>>

TrackerNext ==
    \/ LabMinimal
    \/ LabWithHiddenNodes
    \/ LabMutateAddNode
    \/ LabGetInnovation

SpecTracker == TrackerInit /\ [][TrackerNext]_vars

\* every (from, to, id) a caller has seen: returned by a getInnovation call
\* or carried by a connection of a genome
SeenIds ==
    {<<hist.log[i].from, hist.log[i].to, hist.log[i].id>> : i \in Calls}
    \cup UNION {{<<c.from, c.to, c.innovation>> : c \in Range(g.connections)} :
                   g \in Range(lab.genomes)}

\* C3: the same pair always gets the same id, different pairs get different
\* ids, and a pair not seen before gets the id following the ids issued so
\* far, while a pair seen before gets none of the new ones.
C3_InnovationIds ==
    /\ \A a, b \in SeenIds : (a[1] = b[1] /\ a[2] = b[2]) <=> a[3] = b[3]
    /\ \A i \in Calls :
          IF hist.log[i].known THEN hist.log[i].id <= hist.log[i].issued
          ELSE hist.log[i].id = hist.log[i].issued + 1
    /\ \A a \in SeenIds : 1 <= a[3] /\ a[3] < lab.tracker.nextInnovation

\* a caller asked for a new pair and later, after a split, for the same pair again
C3_Witness ==
    \E i, j \in Calls, m \in Splits :
        /\ i < m /\ m < j
        /\ hist.log[i].from = hist.log[j].from
        /\ hist.log[i].to = hist.log[j].to
        /\ ~hist.log[i].known
        /\ hist.log[j].known

\* C4: two genomes that had the same connection innovation split got the same
\* hidden node id and the same two replacement innovation ids, and carry them.
C4_SameSplitSameIds ==
    /\ \A a, b \in Splits :
          hist.log[a].innovation = hist.log[b].innovation =>
              hist.log[a].split = hist.log[b].split
    /\ \A a \in Splits :
          LET g == lab.genomes[hist.log[a].genome]
          IN /\ HasNode(g.nodes, hist.log[a].split.newNodeId)
             /\ HasInnovation(g.connections, hist.log[a].split.inInnovation)
             /\ HasInnovation(g.connections, hist.log[a].split.outInnovation)

\* two different genomes had the same innovation split, with a getInnovation
\* call for a new pair in between
C4_Witness ==
    \E i, j \in Splits, m \in Calls :
        /\ i < m /\ m < j
        /\ hist.log[i].genome # hist.log[j].genome
        /\ hist.log[i].innovation = hist.log[j].innovation
        /\ ~hist.log[m].known

-----------------------------------------------------------------------------
(* crossover(g, g): one genome, some of its connections toggled, crossed     *)
(* with itself                                                               *)

MaxCrossHidden == 2
MaxToggles == 2
CrossSources == {<<0>>, <<999>>, <<0, 999>>, <<999, 0, 0>>, <<0, 0, 999>>}
ToggleSources == {<<0>>, <<500>>, <<999>>}

CrossInit ==
    /\ Idle
    /\ \E s \in LabSources, hiddenCount \in 0..MaxCrossHidden :
          LET m == WithHiddenNodes(NewTracker(FirstHiddenId), hiddenCount, s, 0)
          IN lab = [tracker |-> m.t, genomes |-> <<m.g>>, network |-> NoNetwork]
    /\ hist = [toggles |-> 0]
    /\ ret = [op |-> "new"]

\* mutateToggleConnection(genome, rng)
CrossToggle ==
    /\ hist.toggles < MaxToggles
    /\ \E s \in ToggleSources :
          lab' = [lab EXCEPT !.genomes[1] = MutateToggleConnection(@, s, 0).g]
    /\ hist' = [hist EXCEPT !.toggles = @ + 1]
    /\ ret' = [op |-> "mutateToggleConnection"]
    /\ UNCHANGED <<population, runner, store, world>>

\* crossover(g, g, rng)
CrossSelf ==
    /\ \E s \in CrossSources :
          ret' = [op |-> "crossover", parent |-> lab.genomes[1],
                  child |-> Crossover(lab.genomes[1], lab.genomes[1], s, 0).g]
    /\ UNCHANGED <<population, runner, store, world, lab, hist>>

CrossNext ==
    \/ CrossToggle
    \/ CrossSelf

SpecCross == CrossInit /\ [][CrossNext]_vars

EnabledInnovations(g) == {c.innovation : c \in {x \in Range(g.connections) : x.enabled}}
WeightOf(g) == {<<c.innovation, c.weight>> : c \in Range(g.connections)}

\* C5 as stated: the child of crossover(g, g) has the enabled connections of g
\* and the weights of g.
C5_SelfCrossoverSame ==
    ret.op = "crossover" =>
        /\ EnabledInnovations(ret.child) = EnabledInnovations(ret.parent)
        /\ WeightOf(ret.child) = WeightOf(ret.parent)

\* C5, amended: the child of crossover(g, g) has the nodes of g and the
\* connections of g in the same order with the same weights; every connection
\* enabled in g is enabled in the child; only a connection disabled in g can
\* differ, by being enabled in the child, so the child equals g in its genes
\* when g has no disabled connection.
C5_SelfCrossoverAmended ==
    ret.op = "crossover" =>
        LET p == ret.parent.connections
            c == ret.child.connections
        IN /\ ret.child.nodes = ret.parent.nodes
           /\ Len(c) = Len(p)
           /\ \A i \in 1..Len(p) :
                 /\ [c[i] EXCEPT !.enabled = TRUE] = [p[i] EXCEPT !.enabled = TRUE]
                 /\ p[i].enabled => c[i].enabled
           /\ (\A i \in 1..Len(p) : p[i].enabled) => Genes(ret.child) = Genes(ret.parent)

\* a genome with two disabled connections crossed with itself: one of them
\* stayed disabled, the other one came back enabled
C5_Witness ==
    /\ ret.op = "crossover"
    /\ \E i, j \in 1..Len(ret.parent.connections) :
          /\ ~ret.parent.connections[i].enabled /\ ~ret.child.connections[i].enabled
          /\ ~ret.parent.connections[j].enabled /\ ret.child.connections[j].enabled

-----------------------------------------------------------------------------
(* Network.activate on the network of one genome *)

MaxNetHidden == 1
InputVals == {0, 1000, -500}
NetInputs ==
    {[i \in 1..n |-> v] : n \in {0, InputCount - 1, InputCount, InputCount + 1},
                          v \in InputVals}

NetInit ==
    /\ Idle
    /\ \E s \in LabSources, hiddenCount \in 0..MaxNetHidden :
          LET m == WithHiddenNodes(NewTracker(FirstHiddenId), hiddenCount, s, 0)
          IN lab = [tracker |-> m.t, genomes |-> <<m.g>>, network |-> FromGenome(m.g)]
    /\ hist = [failed |-> FALSE]
    /\ ret = [op |-> "fromGenome"]

\* network.activate(inputs)
NetActivate ==
    /\ \E inputs \in NetInputs :
          LET r == Activate(lab.network, inputs)
          IN /\ lab' = [lab EXCEPT !.network = r.net]
             /\ ret' = [op |-> "activate", inputs |-> inputs, error |-> r.error,
                        outputs |-> r.outputs, before |-> lab.network]
             /\ hist' = [hist EXCEPT !.failed = @ \/ r.error]
    /\ UNCHANGED <<population, runner, store, world>>

NetNext == NetActivate

SpecNet == NetInit /\ [][NetNext]_vars

\* C6: a call with a vector of the wrong length raises the error, returns no
\* outputs and leaves the network as it was; a call with a vector of the right
\* length returns what a network fresh from the genome returns for it,
\* whatever calls came before.
C6_ActivateArity ==
    ret.op = "activate" =>
        IF Len(ret.inputs) # InputCount
        THEN ret.error /\ ret.outputs = <<>> /\ lab.network = ret.before
        ELSE /\ ~ret.error
             /\ Len(ret.outputs) = OutputCount
             /\ ret.outputs = Activate(FromGenome(lab.genomes[1]), ret.inputs).outputs

\* a valid call that follows a failed one and one with other inputs
C6_Witness ==
    /\ ret.op = "activate"
    /\ ~ret.error
    /\ hist.failed
    /\ ret.before.values # lab.network.values
    /\ \E i \in 1..Len(ret.outputs) : ret.outputs[i] # 0

\* C23: for a genome made by Genome.minimal or Genome.withHiddenNodes, a call
\* of activate with a vector of inputCount values returns outputCount values,
\* the i-th being the value of the i-th output node, each within [-1, 1].
C23_OutputsInRange ==
    (ret.op = "activate" /\ Len(ret.inputs) = InputCount) =>
        /\ ~ret.error
        /\ Len(ret.outputs) = OutputCount
        /\ \A i \in 1..OutputCount :
              /\ lab.network.orderedNodes[lab.network.outputNodeIndices[i]].id = OutputIds[i]
              /\ ret.outputs[i] = lab.network.values[lab.network.outputNodeIndices[i]]
              /\ ret.outputs[i] >= -1000
              /\ ret.outputs[i] <= 1000

\* a valid call on a genome with a hidden node whose outputs differ from one
\* another and come close to the bound
C23_Witness ==
    /\ ret.op = "activate"
    /\ Len(ret.inputs) = InputCount
    /\ ~ret.error
    /\ HiddenCount(lab.genomes[1]) > 0
    /\ \E i, j \in 1..OutputCount : ret.outputs[i] # ret.outputs[j]
    /\ \E i \in 1..OutputCount : Abs(ret.outputs[i]) > 900

-----------------------------------------------------------------------------
(* Population.evolve() called on scored populations *)

MaxEvolveGeneration == 1
EvolveSizes == {4, 7}
ElitismVals == {3, 6}
EvolveSources == {<<400, 600, 100>>, <<0, 999>>}

\* the fitness the evaluation leaves on genome i (1-based) of n: falling from
\* the first genome down, or rising towards the last one in small steps
ScorePatterns == {"falling", "rising"}
ScoreOf(pattern, i, n) ==
    IF pattern = "falling" THEN 1000 * (n + 1 - i) ELSE 4000 + 50 * i

EvolveInit ==
    /\ \E popSize \in EvolveSizes, s \in EvolveSources :
          /\ population = NewPopulation(StoreConfig(popSize), s)
          /\ hist = [populationSize |-> popSize, scored |-> FALSE,
                     hallOfFame |-> NoGenome]
    /\ runner = NewRunner
    /\ store = NewStore
    /\ world = NewWorld
    /\ lab = NoLab
    /\ ret = [op |-> "new"]

\* genome.fitness = fitness, for every genome of the generation
EvolveScore ==
    /\ ~hist.scored
    /\ \E pattern \in ScorePatterns :
          LET gs == population.genomes
              scored == [i \in 1..Len(gs) |->
                            [gs[i] EXCEPT !.fitness = ScoreOf(pattern, i, Len(gs))]]
              best == CHOOSE i \in 1..Len(gs) :
                          \A j \in 1..Len(gs) : scored[j].fitness <= scored[i].fitness
          IN /\ population' = [population EXCEPT !.genomes = scored]
             /\ hist' = [hist EXCEPT !.scored = TRUE,
                                     !.hallOfFame = IF @ = NoGenome THEN Clone(scored[best])
                                                    ELSE @]
    /\ ret' = [op |-> "score"]
    /\ UNCHANGED <<runner, store, world, lab>>

\* population.evolve(config): any stagnation level, any elitism, with or
\* without the hall-of-fame genome
EvolveOnce ==
    /\ hist.scored
    /\ population.generation <= MaxEvolveGeneration
    /\ \E level \in 0..5, elitism \in ElitismVals, withHallOfFame \in BOOLEAN,
          s \in RunnerSources :
          LET config == [StoreConfig(hist.populationSize) EXCEPT
                            !.elitism = elitism,
                            !.stagnationLevel = level,
                            !.injectDiversity = level >= 1,
                            !.hallOfFameGenome = IF withHallOfFame THEN hist.hallOfFame
                                                 ELSE NoGenome]
          IN /\ population' = Evolve(population, config, s)
             /\ ret' = [op |-> "evolve", config |-> config,
                        previous |-> population.genomes,
                        ranked |-> Ranked(population.genomes, level)]
    /\ hist' = [hist EXCEPT !.scored = FALSE]
    /\ UNCHANGED <<runner, store, world, lab>>

EvolveNext ==
    \/ EvolveScore
    \/ EvolveOnce

SpecEvolve == EvolveInit /\ [][EvolveNext]_vars

\* C1 as stated: after evolve(config), at every stagnation level and with or
\* without a hall-of-fame genome, the population holds exactly
\* config.populationSize genomes.
C1_ExactPopulationSize ==
    ret.op = "evolve" => Len(population.genomes) = ret.config.populationSize

\* the genomes of gs that have fewer than count genomes of gs at or above
\* their fitness: the top count genomes by fitness (1-based indices)
TopByFitness(gs, count) ==
    {i \in 1..Len(gs) :
        Cardinality({j \in 1..Len(gs) : j # i /\ gs[j].fitness >= gs[i].fitness}) < count}

HasGenes(gs, g) == \E j \in 1..Len(gs) : Genes(gs[j]) = Genes(g)

\* C2 as stated: after evolve(config), at every stagnation level and for every
\* elitism, each of the top max(2, elitism) genomes of the previous generation
\* by fitness is in the new population with the same node and connection genes.
C2_TopByFitnessPreserved ==
    ret.op = "evolve" =>
        \A i \in TopByFitness(ret.previous, Max2(2, ret.config.elitism)) :
            HasGenes(population.genomes, ret.previous[i])

\* the number of leading genomes of its ranking that evolve() clones first
KeptCount(config, previousSize) ==
    IF config.stagnationLevel >= 5 THEN Min2(5, previousSize)
    ELSE Min2(previousSize, Min2(Max2(2, config.elitism), config.populationSize))

\* C2, amended: evolve() ranks the previous generation by fitness, at
\* stagnation levels 4 and 5 by the fitness left after the sharing penalty;
\* below level 5 the first max(2, elitism) genomes of that ranking (all of
\* them if there are fewer, and no more than populationSize) open the new
\* population in that order with the same node and connection genes; at level
\* 5 the first five of the ranking do, whatever the elitism; and at every
\* level the genome of the highest fitness is among them.
C2_RankedElitesPreserved ==
    ret.op = "evolve" =>
        LET kept == KeptCount(ret.config, Len(ret.previous))
        IN /\ kept <= Len(population.genomes)
           /\ kept >= Min2(2, Len(ret.previous))
           /\ \A i \in 1..kept : Genes(population.genomes[i]) = Genes(ret.ranked[i])
           /\ \A i \in TopByFitness(ret.previous, 1) :
                 HasGenes(population.genomes, ret.previous[i])

\* an evolve() at a level below 5 with elitism 6 on seven genomes that were
\* not in fitness order: the six first of the ranking are kept, the last is not
C2_Witness ==
    /\ ret.op = "evolve"
    /\ ret.config.stagnationLevel < 5
    /\ ret.config.elitism = 6
    /\ Len(ret.previous) = 7
    /\ ret.previous[1].fitness < ret.previous[2].fitness
    /\ KeptCount(ret.config, Len(ret.previous)) = 6
    /\ \A i \in 1..6 : Genes(population.genomes[i]) = Genes(ret.ranked[i])

\* a nuclear reset that keeps five genomes where the elitism asks for six
NuclearKeepsFive ==
    /\ ret.op = "evolve"
    /\ ret.config.stagnationLevel = 5
    /\ ret.config.elitism = 6
    /\ Len(ret.previous) = 7
    /\ ~HasGenes(population.genomes, ret.ranked[6])

\* a sharing penalty that moves a genome out of the first three by fitness
SharingReorders ==
    /\ ret.op = "evolve"
    /\ ret.config.stagnationLevel = 4
    /\ \E i \in TopByFitness(ret.previous, 3) :
          \A j \in 1..3 : Genes(ret.ranked[j]) # Genes(ret.previous[i])

\* a nuclear reset with a hall-of-fame genome on a population of four
OversizedNuclearReset ==
    /\ ret.op = "evolve"
    /\ ret.config.stagnationLevel = 5
    /\ ret.config.hallOfFameGenome # NoGenome
    /\ Len(population.genomes) = ret.config.populationSize + 1

-----------------------------------------------------------------------------
(* Properties of the running application *)

AllIndices == 0..(Len(hist.evolve.fitness) - 1)

\* C7: when the Skip Gen button ends a generation, every genome that a
\* finished episode of that generation had scored still carries that score
\* when evolve() runs, and the genomes marked with the minimal fitness are
\* genomes no episode had scored.
C7_SkipKeepsEpisodeScores ==
    (ret.op = "skipToNextGeneration" /\ hist.evolve.called) =>
        /\ hist.evolve.scored \cap hist.evolve.skipped = {}
        /\ \A i \in hist.evolve.scored :
              hist.evolve.fitness[i + 1] = hist.evolve.episodeFitness[i]

\* C8: episodes of a generation finish in index order 0, 1, .., and evolve()
\* is only called on a population in which every genome got a fitness during
\* the generation, from a finished episode or from skip.
C8_EvolveOnlyWhenAllScored ==
    /\ \A i \in 1..Len(hist.generation.order) :
          i <= Len(population.genomes) => hist.generation.order[i] = i - 1
    /\ hist.evolve.called =>
          hist.evolve.scored \cup hist.evolve.skipped = AllIndices

\* C9: a training step ends the episode (the genome gets its fitness) exactly
\* when the creature has fallen or the elapsed time has reached the limit, so
\* no training episode is ever alive past its end; a step of the all-time-best
\* replay or of a comparison session ends it exactly when the creature has
\* fallen, whatever the elapsed time.
C9_EpisodeEnd ==
    /\ ret.op = "stepOnce" =>
          (ret.ended <=> (ret.fallen \/ ret.evalTime >= MaxSteps))
    /\ runner.mode = "train" => (~world.fallen /\ runner.evalTime < MaxSteps)
    /\ ret.op = "stepReplayBestOnce" => (ret.ended <=> ret.fallen)
    /\ ret.op = "stepCompareOnce" =>
          \A i \in ret.live : ret.after[i].session.done <=> i \in ret.falls

\* a training episode that the time limit ended, the creature still standing
C9_Witness ==
    /\ ret.op = "stepOnce"
    /\ ret.ended
    /\ ~ret.fallen
    /\ ret.evalTime = MaxSteps
    /\ ret.genome \in (IF ret.evolved THEN hist.evolve.scored ELSE hist.generation.scored)

\* a replay of the all-time best still running after the training time limit
ReplayPastLimit ==
    /\ ret.op = "stepReplayBestOnce"
    /\ ~ret.ended
    /\ ret.evalTime > MaxSteps

\* a comparison session still running after the training time limit
ComparePastLimit ==
    /\ ret.op = "stepCompareOnce"
    /\ \E i \in ret.live : ~ret.after[i].session.done /\ ret.after[i].session.evalTime > MaxSteps

SecondNuclearReset ==
    /\ hist.evolve.called
    /\ hist.evolve.stagnationLevel = 5
    /\ hist.evolve.sinceNuclear = NuclearThreshold

-----------------------------------------------------------------------------
(* new Population(..) and Population.speciate() called directly *)

MaxSpeciateCalls == 11

MaxConstructs == 2
\* the configurations handed to the constructor: the store's defaults for two
\* sizes, a threshold seed equal to the built-in 3.0, and three configurations
\* out of range
SpeciateConfigs ==
    {StoreConfig(4), StoreConfig(7),
     [StoreConfig(4) EXCEPT !.compatibilityThreshold = 3000],
     [StoreConfig(4) EXCEPT !.mutationRate = -100],
     StoreConfig(0), StoreConfig(-3)}
SpeciateSources == {<<400, 600, 100>>, <<0, 999>>}

\* the sizes of the species, in species order
MemberCounts(pop) == [i \in 1..Len(pop.species) |-> Len(pop.species[i].genomes)]

\* a configuration the constructor is documented to refuse
OutOfRange(config) ==
    \/ config.populationSize <= 0
    \/ config.mutationRate < 0
    \/ config.addNodeProbability < 0
    \/ config.addConnectionProbability < 0

SpeciateInit ==
    /\ Idle
    /\ lab = NoLab
    /\ ret = [op |-> "new"]
    /\ hist = [constructs |-> 0, calls |-> 0, seen |-> {},
               config |-> StoreConfig(0), source |-> <<>>]

\* new Population({ inputCount, outputCount, config, rng }): the constructor
\* has no failing path, it returns a Population for every configuration
SpeciateConstruct ==
    /\ hist.constructs < MaxConstructs
    /\ \E config \in SpeciateConfigs, s \in SpeciateSources :
          /\ population' = NewPopulation(config, s)
          /\ ret' = [op |-> "construct", config |-> config, source |-> s,
                     error |-> FALSE]
          /\ hist' = [constructs |-> hist.constructs + 1, calls |-> 0,
                      seen |-> IF config = hist.config /\ s = hist.source
                               THEN hist.seen ELSE {},
                      config |-> config, source |-> s]
    /\ UNCHANGED <<runner, store, world, lab>>

\* population.speciate(), Math.random being the random source s
SpeciateCall ==
    /\ population # NoPopulation
    /\ hist.calls < MaxSpeciateCalls
    /\ \E s \in SpeciateSources :
          \E r \in {Speciate(population, s, 0)} :
             LET entry == [populationSize |-> hist.config.populationSize,
                           source |-> hist.source,
                           threshold |-> population.compatibilityThreshold,
                           counts |-> MemberCounts(r.pop)]
             IN /\ population' = r.pop
                /\ ret' = [op |-> "speciate",
                           threshold |-> population.compatibilityThreshold,
                           counts |-> MemberCounts(r.pop),
                           random |-> s,
                           previous |-> population.species,
                           before |-> IF ret.op = "speciate"
                                      THEN [threshold |-> ret.threshold,
                                            random |-> ret.random]
                                      ELSE [threshold |-> 0, random |-> <<>>]]
                /\ hist' = [hist EXCEPT !.calls = @ + 1, !.seen = @ \cup {entry}]
    /\ UNCHANGED <<runner, store, world, lab>>

SpeciateNext ==
    \/ SpeciateConstruct
    \/ SpeciateCall

SpecSpeciate == SpeciateInit /\ [][SpeciateNext]_vars

\* C11 as stated: speciate() on an identical population (same configuration,
\* same seed) always gives the same species membership counts, however
\* many times speciate() ran before and whatever Math.random returns.
C11_SameCountsEveryCall ==
    \A a, b \in hist.seen :
        (a.populationSize = b.populationSize /\ a.source = b.source) =>
            a.counts = b.counts

\* C11: speciate() on the same genomes under the same compatibility threshold
\* gives the same species membership counts, whatever Math.random returns and
\* whatever species the calls before left behind.
C11_SameCountsSameThreshold ==
    \A a, b \in hist.seen :
        (a.populationSize = b.populationSize /\ a.source = b.source
            /\ a.threshold = b.threshold) =>
            a.counts = b.counts

\* the same population was speciated twice in a row under one threshold,
\* with different values of Math.random, into more than one species
C11_Witness ==
    /\ ret.op = "speciate"
    /\ ret.before.threshold = ret.threshold
    /\ ret.before.random # <<>>
    /\ ret.before.random # ret.random
    /\ Len(ret.counts) > 1

\* two calls on the same genomes gave different membership counts
RepartitionedByThreshold ==
    \E a, b \in hist.seen :
        /\ a.populationSize = b.populationSize /\ a.source = b.source
        /\ a.threshold # b.threshold /\ a.counts # b.counts

\* C13 as stated: the first speciate() of a Population uses the
\* compatibilityThreshold of its configuration as threshold.
C13_ConfiguredThresholdUsed ==
    (ret.op = "speciate" /\ hist.calls = 1) =>
        ret.threshold = hist.config.compatibilityThreshold

\* C14 as stated: constructing a Population with a population size <= 0 or a
\* negative rate fails, and no Population with such a configuration exists.
C14_OutOfRangeRefused ==
    /\ (ret.op = "construct" /\ OutOfRange(ret.config)) => ret.error
    /\ population # NoPopulation => ~OutOfRange(hist.config)

\* a Population built from populationSize -3 holds one genome
NegativeSizePopulation ==
    /\ ret.op = "construct"
    /\ ret.config.populationSize = -3
    /\ Len(population.genomes) = 1

\* the species of the list that genome g fits under the threshold, in list order
FittingSpecies(species, g, threshold) ==
    {j \in 1..Len(species) :
        CompatibilityDistance(g, species[j].representative) < threshold}

\* C25 as stated: after speciate(), a genome that is within the threshold of
\* the representative of a species of the previous call is in the species
\* with the id of the first such species, and a species with a new id was
\* founded by a genome that fitted no species of the previous call.
C25_SpeciesCarriedOver ==
    ret.op = "speciate" =>
        \A i \in 1..Len(population.species) :
            \A m \in 1..Len(population.species[i].genomes) :
                LET g == population.genomes[population.species[i].genomes[m]]
                    fits == FittingSpecies(ret.previous, g, ret.threshold)
                IN fits # {} =>
                      population.species[i].id = ret.previous[MinOfSet(fits)].id

\* a second speciate() on the same genomes gave every species a new id
\* although every genome fitted a species of the call before
FreshIdsEveryCall ==
    /\ ret.op = "speciate"
    /\ ret.previous # <<>>
    /\ \A i \in 1..Len(population.genomes) :
          FittingSpecies(ret.previous, population.genomes[i], ret.threshold) # {}
    /\ \A i \in 1..Len(population.species), j \in 1..Len(ret.previous) :
          population.species[i].id > ret.previous[j].id

(***************************************************************************)
(* The adaptive threshold on its own.  speciate() ends by adjusting the    *)
(* threshold from the number of species it found; here that number is any  *)
(* count a population of up to MaxSpeciesFound genomes can yield, so every *)
(* sequence of thresholds of the program is a behaviour.                   *)
(***************************************************************************)

MaxSpeciesFound == 31

ThresholdInit ==
    /\ Idle
    /\ lab = NoLab
    /\ hist = [calls |-> 0]
    /\ ret = [op |-> "new", threshold |-> InitialCompatibilityThreshold]

\* speciate() finding speciesCount species
ThresholdAdjust ==
    /\ \E speciesCount \in 0..MaxSpeciesFound :
          ret' = [op |-> "speciate",
                  found |-> speciesCount,
                  before |-> ret.threshold,
                  threshold |-> AdjustThreshold(ret.threshold, speciesCount)]
    /\ UNCHANGED <<population, runner, store, world, lab, hist>>

ThresholdNext ==
    \/ ThresholdAdjust

SpecThreshold == ThresholdInit /\ [][ThresholdNext]_vars

\* C12: the adaptive threshold stays within [0.5, 5.0]; fewer than 5 species
\* lower it by 0.3 but not below 0.5, more than 12 species raise it by
\* min(0.5, 0.15 + 0.02 x overshoot) but not above 5.0, and 5 to 12 species
\* leave it unchanged.
C12_ThresholdAdjusted ==
    /\ ret.threshold >= 500 /\ ret.threshold <= 5000
    /\ ret.op = "speciate" =>
          LET raise == IF 150 + 20 * (ret.found - 12) < 500
                       THEN 150 + 20 * (ret.found - 12) ELSE 500
          IN /\ ret.found < 5 =>
                   ret.threshold = (IF ret.before - 300 < 500 THEN 500
                                    ELSE ret.before - 300)
             /\ ret.found > 12 =>
                   ret.threshold = (IF ret.before + raise > 5000 THEN 5000
                                    ELSE ret.before + raise)
             /\ (ret.found >= 5 /\ ret.found <= 12) => ret.threshold = ret.before

\* a call that found more than 12 species stopped at the ceiling 5.0 from a
\* threshold less than one full step below it
C12_Witness ==
    /\ ret.op = "speciate"
    /\ ret.found > 12
    /\ ret.before < 5000
    /\ ret.before + 150 + 20 * (ret.found - 12) > 5000
    /\ ret.threshold = 5000

-----------------------------------------------------------------------------
(* The mutation operators and compatibilityDistance called directly, on      *)
(* genomes from Genome.minimal, Genome.withHiddenNodes and the Genome         *)
(* constructor                                                                *)

MaxMutationOps == 1

\* the connection lists handed to new Genome(..): none, or bias -> first
\* output, enabled or disabled
ConstructedWirings ==
    {<<>>} \cup {<< [from |-> BiasId, to |-> OutputIds[1], weight |-> 500, enabled |-> e] >> :
                    e \in BOOLEAN}

StructuralOps == {"mutateAddNode", "mutateAddConnection", "mutateToggleConnection"}

\* the pair that attempt number attempt of mutateAddConnection samples when
\* every attempt before it was rejected
SampledPair(g, s, attempt) ==
    LET fromCandidates == SelectSeq(g.nodes, LAMBDA n : n.type # "output")
        toCandidates == SelectSeq(g.nodes, LAMBDA n : n.type # "input" /\ n.type # "bias")
    IN [from |-> fromCandidates[FloorMul(Rng(s, 2 * attempt), Len(fromCandidates)) + 1],
        to |-> toCandidates[FloorMul(Rng(s, 2 * attempt + 1), Len(toCandidates)) + 1]]

\* the operator op has nothing legal to act on in g under the random source s
NothingLegal(op, g, s) ==
    IF op = "mutateAddNode" THEN \A i \in 1..Len(g.connections) : ~g.connections[i].enabled
    ELSE IF op = "mutateToggleConnection" THEN Len(g.connections) = 0
    ELSE \/ \A i \in 1..Len(g.nodes) : g.nodes[i].type = "output"
         \/ \A i \in 1..Len(g.nodes) : g.nodes[i].type \in {"input", "bias"}
         \/ \A attempt \in 0..29 :
               LET pair == SampledPair(g, s, attempt)
               IN \/ pair.from.id = pair.to.id
                  \/ pair.from.layer >= pair.to.layer
                  \/ \E i \in 1..Len(g.connections) :
                        /\ g.connections[i].from = pair.from.id
                        /\ g.connections[i].to = pair.to.id

MutationInit ==
    /\ Idle
    /\ lab = NewLab
    /\ hist = [log |-> <<>>, ops |-> 0, noops |-> {}]
    /\ ret = [op |-> "new"]

\* new Genome({.., nodes, connections}) with innovation ids from the tracker
LabConstruct ==
    /\ Len(lab.genomes) < MaxLabGenomes
    /\ \E wiring \in ConstructedWirings :
          \E r \in {ForEach(LAMBDA st, i :
                               With(GetInnovation(st.t, wiring[i].from, wiring[i].to),
                                    LAMBDA gi :
                                   [t |-> gi.t,
                                    conns |-> Append(st.conns,
                                                     [innovation |-> gi.id,
                                                      from |-> wiring[i].from,
                                                      to |-> wiring[i].to,
                                                      weight |-> wiring[i].weight,
                                                      enabled |-> wiring[i].enabled])]),
                            [t |-> lab.tracker, conns |-> <<>>], 1, Len(wiring))} :
             /\ lab' = [lab EXCEPT !.tracker = r.t,
                                   !.genomes = Append(@, [nodes |-> MinimalNodes,
                                                          connections |-> r.conns,
                                                          fitness |-> 0])]
             /\ ret' = [op |-> "construct"]
    /\ UNCHANGED <<population, runner, store, world, hist>>

\* what a structural operator did to genome i, as the properties observe it;
\* ops counts the calls that changed the genome or the tracker, and the run
\* is bounded to MaxMutationOps of those
Mutated(op, i, s, g, t) ==
    /\ (g # lab.genomes[i] \/ t # lab.tracker) => hist.ops < MaxMutationOps
    /\ lab' = [lab EXCEPT !.tracker = t, !.genomes[i] = g]
    /\ ret' = [op |-> op, genome |-> i, before |-> lab.genomes[i],
               tracker |-> lab.tracker, source |-> s, error |-> FALSE]
    /\ hist' = [hist EXCEPT !.ops = IF g = lab.genomes[i] /\ t = lab.tracker THEN @
                                    ELSE @ + 1,
                            !.noops = IF NothingLegal(op, lab.genomes[i], s)
                                      THEN @ \cup {op} ELSE @]

\* mutateAddNode(genome, tracker, rng)
LabAddNode ==
    /\ \E i \in 1..Len(lab.genomes), s \in LabSources :
          \E m \in {MutateAddNode(lab.genomes[i], lab.tracker, s, 0)} :
             Mutated("mutateAddNode", i, s, m.g, m.t)
    /\ UNCHANGED <<population, runner, store, world>>

\* mutateAddConnection(genome, tracker, rng)
LabAddConnection ==
    /\ \E i \in 1..Len(lab.genomes), s \in LabSources :
          \E m \in {MutateAddConnection(lab.genomes[i], lab.tracker, s, 0)} :
             Mutated("mutateAddConnection", i, s, m.g, m.t)
    /\ UNCHANGED <<population, runner, store, world>>

\* mutateToggleConnection(genome, rng)
LabToggleConnection ==
    /\ \E i \in 1..Len(lab.genomes), s \in LabSources :
          \E m \in {MutateToggleConnection(lab.genomes[i], s, 0)} :
             Mutated("mutateToggleConnection", i, s, m.g, lab.tracker)
    /\ UNCHANGED <<population, runner, store, world>>

MutationNext ==
    \/ LabMinimal
    \/ LabWithHiddenNodes
    \/ LabConstruct
    \/ LabAddNode
    \/ LabAddConnection
    \/ LabToggleConnection

SpecMutation == MutationInit /\ [][MutationNext]_vars

\* C15: mutateAddNode on a genome with no enabled connection,
\* mutateAddConnection when none of its 30 sampled pairs is valid, and
\* mutateToggleConnection on a genome with no connections return without
\* raising and leave the genome and the InnovationTracker unchanged.
C15_SilentNoOp ==
    (ret.op \in StructuralOps /\ NothingLegal(ret.op, ret.before, ret.source)) =>
        /\ ~ret.error
        /\ lab.genomes[ret.genome] = ret.before
        /\ lab.tracker = ret.tracker

\* each of the three operators has met its case of nothing to act on, the
\* last one being mutateAddNode on a genome whose only connection is disabled
C15_Witness ==
    /\ hist.noops = StructuralOps
    /\ ret.op = "mutateAddNode"
    /\ Len(ret.before.connections) = 1
    /\ ~ret.before.connections[1].enabled

-----------------------------------------------------------------------------
(* compatibilityDistance called directly on genomes from Genome.minimal,     *)
(* Genome.withHiddenNodes and the Genome constructor                          *)

\* compatibilityDistance(a, b) of two of the genomes
LabDistance ==
    /\ \E a, b \in 1..Len(lab.genomes) :
          ret' = [op |-> "compatibilityDistance", a |-> a, b |-> b,
                  distance |-> CompatibilityDistance(lab.genomes[a], lab.genomes[b])]
    /\ UNCHANGED <<population, runner, store, world, lab, hist>>

DistanceNext ==
    \/ LabMinimal
    \/ LabWithHiddenNodes
    \/ LabConstruct
    \/ LabDistance

SpecDistance == MutationInit /\ [][DistanceNext]_vars

\* C16: compatibilityDistance(g, g) = 0 for every genome g, whatever its
\* number of connections.
C16_DistanceToSelf ==
    (ret.op = "compatibilityDistance" /\ ret.a = ret.b) => ret.distance = 0

\* the distance of a genome with a hidden node to itself was computed, next
\* to a genome that is at a distance from it
C16_Witness ==
    /\ ret.op = "compatibilityDistance"
    /\ ret.a = ret.b
    /\ HiddenCount(lab.genomes[ret.a]) > 0
    /\ Len(lab.genomes[ret.a].connections) >= 20
    /\ \E b \in 1..Len(lab.genomes) :
          CompatibilityDistance(lab.genomes[ret.a], lab.genomes[b]) > 0

\* the distance of a genome without connections to itself was computed
SelfDistanceOfEmpty ==
    /\ ret.op = "compatibilityDistance"
    /\ ret.a = ret.b
    /\ Len(lab.genomes[ret.a].connections) = 0

-----------------------------------------------------------------------------
(* Well-formedness of the genomes of the population *)

LayerOf(g, id) == FindNode(g.nodes, id).layer

\* the (id, layer) pairs of the nodes of the genomes gs
NodeLayers(gs) ==
    UNION {{<<gs[i].nodes[n].id, gs[i].nodes[n].layer>> : n \in 1..Len(gs[i].nodes)} :
              i \in 1..Len(gs)}

FeedForward(g) ==
    \A i \in 1..Len(g.connections) :
        LayerOf(g, g.connections[i].from) < LayerOf(g, g.connections[i].to)

\* C17: every connection of every genome of the population goes from a node
\* of strictly lower layer to a node of strictly higher layer, and a node id
\* has the same layer in every genome of the population.
C17_LayersIncrease ==
    population # NoPopulation =>
        /\ \A i \in 1..Len(population.genomes) : FeedForward(population.genomes[i])
        /\ \A p, q \in NodeLayers(population.genomes) : p[1] = q[1] => p[2] = q[2]

\* after evolve(), a genome of the population holds a hidden node that was
\* made by splitting a connection of another hidden node
C17_Witness ==
    /\ population # NoPopulation
    /\ population.generation > 1
    /\ \E i \in 1..Len(population.genomes) :
          \E n \in 1..Len(population.genomes[i].nodes) :
             /\ population.genomes[i].nodes[n].type = "hidden"
             /\ population.genomes[i].nodes[n].layer # LayerOne \div 2

WellFormed(g) ==
    /\ \A i, j \in 1..Len(g.nodes) : g.nodes[i].id = g.nodes[j].id => i = j
    /\ \A i, j \in 1..Len(g.connections) :
          \/ i = j
          \/ /\ g.connections[i].innovation # g.connections[j].innovation
             /\ \/ g.connections[i].from # g.connections[j].from
                \/ g.connections[i].to # g.connections[j].to
    /\ \A i \in 1..Len(g.connections) :
          /\ HasNode(g.nodes, g.connections[i].from)
          /\ HasNode(g.nodes, g.connections[i].to)

\* every genome of the population is well formed
PopulationWellFormed ==
    population # NoPopulation =>
        \A i \in 1..Len(population.genomes) : WellFormed(population.genomes[i])

(* Genomes built by Genome.minimal and Genome.withHiddenNodes, mutated by the *)
(* structural operators and crossed with each other *)

BreedSources == {<<0>>, <<999>>}

\* crossover(fitter, other, rng) of two of the genomes
LabCrossover ==
    /\ \E a, b \in 1..Len(lab.genomes), s \in BreedSources :
          ret' = [op |-> "crossover", fitter |-> a, other |-> b,
                  child |-> Crossover(lab.genomes[a], lab.genomes[b], s, 0).g]
    /\ UNCHANGED <<population, runner, store, world, lab, hist>>

BreedNext ==
    \/ LabMinimal
    \/ LabWithHiddenNodes
    \/ LabAddNode
    \/ LabAddConnection
    \/ LabToggleConnection
    \/ LabCrossover

SpecBreed == MutationInit /\ [][BreedNext]_vars

\* C18: in every genome built by minimal and withHiddenNodes, mutated and
\* crossed over, node ids are unique, innovation numbers are unique, no two
\* connections share a (from, to) pair, and every connection's endpoints are
\* nodes of the genome.
C18_GenesUnique ==
    /\ \A i \in 1..Len(lab.genomes) : WellFormed(lab.genomes[i])
    /\ ret.op = "crossover" => WellFormed(ret.child)

\* a child inherited a connection of a hidden node that only the other
\* parent has, and the node with it
C18_Witness ==
    /\ ret.op = "crossover"
    /\ HiddenCount(lab.genomes[ret.fitter]) = 0
    /\ HiddenCount(ret.child) > 0
    /\ \E c \in 1..Len(ret.child.connections) :
          ret.child.connections[c].from >= FirstHiddenId

-----------------------------------------------------------------------------
(* A new Population whose genomes are mutated again and again, as           *)
(* makeOffspring mutates its children in the exploration lane                *)

MaxWeightOps == 12

\* random sources under which mutateGenome perturbs every weight, upwards or
\* downwards, and changes nothing else
WeightSources == {<<500, 500, 999>>, <<500, 500, 20>>}

WeightsInit ==
    /\ \E s \in EvolveSources : population = NewPopulation(StoreConfig(PopSize), s)
    /\ runner = NewRunner
    /\ store = NewStore
    /\ world = NewWorld
    /\ lab = NoLab
    /\ hist = [ops |-> 0]
    /\ ret = [op |-> "new"]

\* mutateGenome(genome, this.tracker, explorationMutation, rng) on one genome
PopulationMutate ==
    /\ hist.ops < MaxWeightOps
    /\ \E i \in 1..Len(population.genomes), s \in WeightSources :
          \E m \in {MutateGenome(population.genomes[i], population.tracker,
                                 ExplorationMutation(StoreConfig(PopSize), 0), s, 0)} :
             /\ population' = [population EXCEPT !.genomes[i] = m.g, !.tracker = m.t]
             /\ ret' = [op |-> "mutateGenome", genome |-> i,
                        before |-> population.genomes[i]]
    /\ hist' = [hist EXCEPT !.ops = @ + 1]
    /\ UNCHANGED <<runner, store, world, lab>>

WeightsNext ==
    \/ PopulationMutate

SpecWeights == WeightsInit /\ [][WeightsNext]_vars

\* C19: every connection weight of every genome of the population lies in
\* [-5, 5].
C19_WeightsClamped ==
    population # NoPopulation =>
        \A i \in 1..Len(population.genomes) :
            \A c \in 1..Len(population.genomes[i].connections) :
                /\ population.genomes[i].connections[c].weight >= -5000
                /\ population.genomes[i].connections[c].weight <= 5000

\* a mutation pushed a weight that was below 5 against the bound
C19_Witness ==
    /\ ret.op = "mutateGenome"
    /\ \E c \in 1..Len(ret.before.connections) :
          /\ ret.before.connections[c].weight < 5000
          /\ ret.before.connections[c].weight + 349 > 5000
          /\ population.genomes[ret.genome].connections[c].weight = 5000

\* a weight of the population sits on the bound
WeightAtBound ==
    /\ population # NoPopulation
    /\ \E i \in 1..Len(population.genomes) :
          \E c \in 1..Len(population.genomes[i].connections) :
             population.genomes[i].connections[c].weight \in {-5000, 5000}

-----------------------------------------------------------------------------
(* Genomes as objects.  A node gene or connection gene is an object of the   *)
(* heap, a genome holds references (positions in the heap) to its genes, and  *)
(* the mutation operators write through these references.  The genes an       *)
(* operator returns at the positions of existing genes are the same objects,  *)
(* modified; the genes it pushed are new objects.                             *)

MaxHeapGenomes == 2
MaxHeapOps == 2

HeapOps == {"mutateToggleConnection", "mutateAddNode", "mutateWeights"}

\* the objects genes, put on the heap, and the references to them
Alloc(heap, genes) ==
    [heap |-> heap \o genes, refs |-> [i \in 1..Len(genes) |-> Len(heap) + i]]

\* the genome behind the references rg
Deref(heap, rg) ==
    [nodes |-> [i \in 1..Len(rg.nodes) |-> heap[rg.nodes[i]]],
     connections |-> [i \in 1..Len(rg.connections) |-> heap[rg.connections[i]]],
     fitness |-> 0]

\* a genome of newly made gene objects: the object literals of minimal(),
\* and { ...c }, { ...chosen, enabled }, { ...fromNode } of crossover()
NewObjects(heap, g, how, from) ==
    With(Alloc(heap, g.nodes), LAMBDA n :
    With(Alloc(n.heap, g.connections), LAMBDA c :
        [heap |-> c.heap,
         genome |-> [nodes |-> n.refs, connections |-> c.refs, how |-> how, from |-> from]]))

\* a copy that holds the gene objects of the original
CloneShared(heap, rg, from) ==
    [heap |-> heap, genome |-> [rg EXCEPT !.how = "clone", !.from = from]]

\* Genome.clone(): nodes.map(n => ({...n})), connections.map(c => ({...c}))
CloneGenome(heap, rg, from) == NewObjects(heap, Deref(heap, rg), "clone", from)

\* the heap and the references of genome rg after an operator turned its
\* genes into those of g in place
WriteThrough(heap, rg, g) ==
    LET kept == [i \in 1..Len(heap) |->
                    IF \E n \in 1..Len(rg.nodes) : rg.nodes[n] = i
                    THEN g.nodes[CHOOSE n \in 1..Len(rg.nodes) : rg.nodes[n] = i]
                    ELSE IF \E c \in 1..Len(rg.connections) : rg.connections[c] = i
                    THEN g.connections[CHOOSE c \in 1..Len(rg.connections) :
                                           rg.connections[c] = i]
                    ELSE heap[i]]
    IN With(Alloc(kept, SubSeq(g.nodes, Len(rg.nodes) + 1, Len(g.nodes))), LAMBDA n :
       With(Alloc(n.heap, SubSeq(g.connections, Len(rg.connections) + 1,
                                 Len(g.connections))), LAMBDA c :
           [heap |-> c.heap,
            genome |-> [rg EXCEPT !.nodes = @ \o n.refs, !.connections = @ \o c.refs]]))

\* the operator op applied to the genome g
Operated(op, g, t, s) ==
    IF op = "mutateToggleConnection" THEN [g |-> MutateToggleConnection(g, s, 0).g, t |-> t]
    ELSE IF op = "mutateAddNode"
    THEN With(MutateAddNode(g, t, s, 0), LAMBDA m : [g |-> m.g, t |-> m.t])
    ELSE [g |-> MutateWeightsWithOptions(g, 1000, DefaultWeightMutation, s, 0).g, t |-> t]

\* every gene object of genome rg
GeneObjects(rg) == Range(rg.nodes) \cup Range(rg.connections)

AllGenomes == [i \in 1..Len(lab.genomes) |-> Deref(lab.heap, lab.genomes[i])]

HeapInit ==
    /\ Idle
    /\ lab = [tracker |-> NewTracker(FirstHiddenId), heap |-> <<>>, genomes |-> <<>>]
    /\ hist = [ops |-> 0]
    /\ ret = [op |-> "new"]

\* Genome.withHiddenNodes(init, tracker, hiddenCount, rng)
HeapWithHiddenNodes ==
    /\ Len(lab.genomes) < MaxHeapGenomes
    /\ \E s \in LabSources, hiddenCount \in 0..MaxLabHidden :
          \E m \in {WithHiddenNodes(lab.tracker, hiddenCount, s, 0)} :
             \E r \in {NewObjects(lab.heap, m.g, "withHiddenNodes", 0)} :
                lab' = [tracker |-> m.t, heap |-> r.heap,
                        genomes |-> Append(lab.genomes, r.genome)]
    /\ ret' = [op |-> "withHiddenNodes"]
    /\ UNCHANGED <<population, runner, store, world, hist>>

\* genome.clone(), as evolve() makes its elites and children, speciate() its
\* representatives and the runner its hall-of-fame genome and snapshots
HeapClone ==
    /\ Len(lab.genomes) < MaxHeapGenomes
    /\ \E i \in 1..Len(lab.genomes) :
          \E r \in {CloneGenome(lab.heap, lab.genomes[i], i)} :
             lab' = [lab EXCEPT !.heap = r.heap, !.genomes = Append(@, r.genome)]
    /\ ret' = [op |-> "clone"]
    /\ UNCHANGED <<population, runner, store, world, hist>>

\* crossover(fitter, other, rng)
HeapCrossover ==
    /\ Len(lab.genomes) < MaxHeapGenomes
    /\ \E a, b \in 1..Len(lab.genomes), s \in BreedSources :
          \E r \in {NewObjects(lab.heap,
                               Crossover(Deref(lab.heap, lab.genomes[a]),
                                         Deref(lab.heap, lab.genomes[b]), s, 0).g,
                               "crossover", a)} :
             lab' = [lab EXCEPT !.heap = r.heap, !.genomes = Append(@, r.genome)]
    /\ ret' = [op |-> "crossover"]
    /\ UNCHANGED <<population, runner, store, world, hist>>

\* a mutation operator on one of the genomes
HeapMutate ==
    /\ hist.ops < MaxHeapOps
    /\ \E i \in 1..Len(lab.genomes), op \in HeapOps, s \in LabSources :
          \E m \in {Operated(op, Deref(lab.heap, lab.genomes[i]), lab.tracker, s)} :
             \E r \in {WriteThrough(lab.heap, lab.genomes[i], m.g)} :
                /\ lab' = [tracker |-> m.t, heap |-> r.heap,
                           genomes |-> [lab.genomes EXCEPT ![i] = r.genome]]
                /\ ret' = [op |-> op, genome |-> i, before |-> AllGenomes]
    /\ hist' = [hist EXCEPT !.ops = @ + 1]
    /\ UNCHANGED <<population, runner, store, world>>

HeapNext ==
    \/ HeapWithHiddenNodes
    \/ HeapClone
    \/ HeapCrossover
    \/ HeapMutate

SpecHeap == HeapInit /\ [][HeapNext]_vars

-----------------------------------------------------------------------------
(* computeFitness.  Metres, seconds and fitness points are fixed-point in    *)
(* thousandths; a product or quotient of two such numbers is rounded down.   *)

Times(a, b) == (a * b) \div 1000
Over(a, b) == (a * 1000) \div b

\* clamp01
Clamp01(v) == Max2(0, Min2(1000, v))

StepCoverageThreshold == 350

\* stepCoverage: the share of the distance covered by effective steps
StepCoverage(args) ==
    LET distClamped == Max2(0, args.distance)
        cappedStepLen == Min2(Max2(0, args.effectiveStepLengthSum), distClamped)
    IN IF distClamped > 0 THEN Over(cappedStepLen, distClamped) ELSE 0

AvgVelocity(args) ==
    IF args.survived > 0 THEN Over(args.distance, args.survived) ELSE 0

SurvivalFrac(args) ==
    IF args.maxSurvivalTime > 0
    THEN Clamp01(Over(args.survived, args.maxSurvivalTime))
    ELSE 0

CompletedFullTime(args) ==
    ~args.fallen /\ args.survived >= args.maxSurvivalTime - 100

\* wastedPotential, computed ten times as large
WastedPotentialSteep(dist, survivalFrac) == Times(dist, survivalFrac) * 800

\* wastedPotential = dist * survivalFrac * 80
WastedPotential(dist, survivalFrac) == Times(dist, survivalFrac) * 80

\* the reward terms of the total, summed
RewardTerms(args) ==
    LET dist == Max2(0, args.distance)
        survivalFrac == SurvivalFrac(args)
        avgVelocity == AvgVelocity(args)
        stepCoverage == StepCoverage(args)
        completedFullTime == CompletedFullTime(args)
        walking == stepCoverage >= StepCoverageThreshold
        effectiveDistance ==
            IF ~walking
            THEN Times(Min2(dist, 3000), Over(stepCoverage, StepCoverageThreshold))
            ELSE dist
        gaitQualityMultiplier ==
            IF ~walking THEN 500
            ELSE 1000 + Min2(300, Times(stepCoverage - StepCoverageThreshold, 860))
        distanceReward ==
            Times(Times(effectiveDistance, gaitQualityMultiplier),
                  600 + Times(400, survivalFrac)) * 300
        distVelocityMult == 1000 + Times(Max2(0, avgVelocity - 200), 1500)
        distanceMilestoneBonus ==
            IF walking
            THEN   (IF dist >= 4000 THEN 100 * distVelocityMult ELSE 0)
                 + (IF dist >= 5000 THEN 100 * distVelocityMult ELSE 0)
                 + (IF dist >= 6000 THEN 150 * distVelocityMult ELSE 0)
                 + (IF dist >= 7000 THEN 150 * distVelocityMult ELSE 0)
                 + (IF dist >= 8000 THEN 200 * distVelocityMult ELSE 0)
                 + (IF dist >= 10000 THEN 250 * distVelocityMult ELSE 0)
                 + (IF dist >= 12000 THEN 300 * distVelocityMult ELSE 0)
            ELSE 0
        survivalBonus == args.survived * 15
        completionBonus == IF completedFullTime THEN 400000 ELSE 0
        velBonusMultiplier == IF walking THEN 1500 ELSE 200
        velocityBonus ==
            IF avgVelocity > 0
            THEN Times(Times(avgVelocity, avgVelocity), survivalFrac) * velBonusMultiplier
            ELSE 0
        velocityMilestoneBonus ==
            IF completedFullTime /\ walking
            THEN   (IF avgVelocity >= 150 THEN 100000 ELSE 0)
                 + (IF avgVelocity >= 250 THEN 200000 ELSE 0)
                 + (IF avgVelocity >= 350 THEN 300000 ELSE 0)
                 + (IF avgVelocity >= 450 THEN 400000 ELSE 0)
                 + (IF avgVelocity >= 550 THEN 500000 ELSE 0)
                 + (IF avgVelocity >= 700 THEN 600000 ELSE 0)
            ELSE 0
        stepCoverageBonus ==
            Times(stepCoverage, dist) * (IF completedFullTime THEN 80 ELSE 30)
        stepBonus == args.effectiveStepCount * 5000
        singleSupportBonus == args.singleSupportTime * 4
    IN   distanceReward + distanceMilestoneBonus + survivalBonus + completionBonus
       + velocityBonus + velocityMilestoneBonus + stepCoverageBonus + stepBonus
       + singleSupportBonus

\* the penalty terms of the total, summed
PenaltyTerms(args) ==
    LET dist == Max2(0, args.distance)
        avgVelocity == AvgVelocity(args)
        completedFullTime == CompletedFullTime(args)
        fallingPenalty ==
            IF args.fallen THEN 50000 + WastedPotential(dist, SurvivalFrac(args)) ELSE 0
        backwardsPenalty == IF args.distance < 0 THEN Abs(args.distance) * 150 ELSE 0
        slowMovementPenalty ==
            IF completedFullTime /\ avgVelocity < 300
            THEN (300 - avgVelocity) * 800 ELSE 0
        standingStillPenalty ==
            IF completedFullTime /\ avgVelocity < 50
            THEN (50 - avgVelocity) * 500 ELSE 0
    IN fallingPenalty + backwardsPenalty + slowMovementPenalty + standingStillPenalty

\* minFitness = 1 + survival * 2
MinFitness(args) == 1000 + args.survived * 2

\* the total without its floor
ComputeFitnessUnfloored(args) == RewardTerms(args) - PenaltyTerms(args)

ComputeFitness(args) ==
    Max2(MinFitness(args), RewardTerms(args) - PenaltyTerms(args))

-----------------------------------------------------------------------------
(* Episode records scored by computeFitness: a series of records that       *)
(* differ in the distance travelled only, the step length following the     *)
(* distance so that the step coverage of the series stays what it is         *)

MaxMetres == 12

Distances == {m * 1000 : m \in -2..MaxMetres}
Coverages == {0, 200, 350, 500, 800}
SurvivalTimes == {1000, 5000, 15000, 25000}
StepCounts == {0, 6}
MaxSeconds == 25000

EpisodeRecord(distance, coverage, survived, fallen, steps) ==
    [distance |-> distance,
     effectiveStepCount |-> steps,
     effectiveStepLengthSum |-> Times(coverage, Max2(0, distance)),
     survived |-> survived,
     maxSurvivalTime |-> MaxSeconds,
     fallen |-> fallen,
     singleSupportTime |-> steps * 400]

NoRecord == [fitness |-> -1]

FitnessInit ==
    /\ population = NoPopulation
    /\ runner = NewRunner
    /\ store = NewStore
    /\ world = NewWorld
    /\ \E c \in Coverages, t \in SurvivalTimes, f \in BOOLEAN, n \in StepCounts :
          lab = [coverage |-> c, survived |-> t, fallen |-> f, steps |-> n]
    /\ hist = [calls |-> 0]
    /\ ret = [op |-> "new", before |-> NoRecord]

\* const fitness = computeFitness({...}) on the next record of the series
FitnessCall ==
    /\ \E d \in Distances :
          \E args \in {EpisodeRecord(d, lab.coverage, lab.survived, lab.fallen, lab.steps)} :
             ret' = [op |-> "computeFitness",
                     args |-> args,
                     fitness |-> ComputeFitness(args),
                     before |-> IF ret.op = "computeFitness"
                                THEN [args |-> ret.args, fitness |-> ret.fitness]
                                ELSE NoRecord]
    /\ UNCHANGED <<population, runner, store, world, lab, hist>>

FitnessNext ==
    \/ FitnessCall

SpecFitness == FitnessInit /\ [][FitnessNext]_vars

\* C21: the fitness of every episode record is the larger of 1 + 2 x survival
\* time and the sum of the reward terms minus the sum of the penalty terms, so
\* it is never below 1 + 2 x survival time and never negative.
C21_FitnessFloored ==
    ret.op = "computeFitness" =>
        /\ ret.fitness = Max2(1000 + 2 * ret.args.survived,
                              RewardTerms(ret.args) - PenaltyTerms(ret.args))
        /\ ret.fitness >= 1000 + 2 * ret.args.survived
        /\ ret.fitness >= 0

\* the penalties of a record exceed its rewards and its fitness is the floor
C21_Witness ==
    /\ ret.op = "computeFitness"
    /\ RewardTerms(ret.args) - PenaltyTerms(ret.args) < 0
    /\ ret.fitness = 1000 + 2 * ret.args.survived

\* C22: between two records of equal step coverage at or above the shuffling
\* threshold, equal survival time, equal fallen flag and equal other inputs,
\* the record with the larger distance has at least the fitness of the other;
\* with coverage 0.5, survival 25 and no fall the fitness at distance 5 is
\* below the fitness at distance 8.
C22_MonotoneInDistance ==
    /\ (/\ ret.op = "computeFitness"
        /\ ret.before # NoRecord
        /\ StepCoverage(ret.args) >= StepCoverageThreshold
        /\ StepCoverage(ret.before.args) = StepCoverage(ret.args)
        /\ ret.before.args.distance <= ret.args.distance)
           => ret.before.fitness <= ret.fitness
    /\ (/\ ret.op = "computeFitness"
        /\ ret.before # NoRecord
        /\ StepCoverage(ret.args) = 500
        /\ ret.args.survived = 25000
        /\ ~ret.args.fallen
        /\ ret.before.args.distance = 5000
        /\ ret.args.distance = 8000)
           => ret.before.fitness < ret.fitness

\* a record at distance 5 followed by one at distance 8, coverage 0.5,
\* survival 25, not fallen, the second scoring higher
C22_Witness ==
    /\ ret.op = "computeFitness"
    /\ ret.before # NoRecord
    /\ StepCoverage(ret.args) = 500
    /\ StepCoverage(ret.before.args) = 500
    /\ ret.args.survived = 25000
    /\ ~ret.args.fallen
    /\ ret.before.args.distance = 5000
    /\ ret.args.distance = 8000
    /\ ret.before.fitness < ret.fitness

\* a fall after a longer distance costs more than after a shorter one
FallCostsMoreWhenFar ==
    /\ ret.op = "computeFitness"
    /\ ret.before # NoRecord
    /\ ret.args.fallen
    /\ ret.before.args.distance < ret.args.distance
    /\ PenaltyTerms(ret.before.args) < PenaltyTerms(ret.args)
    /\ StepCoverage(ret.args) >= StepCoverageThreshold
    /\ StepCoverage(ret.before.args) = StepCoverage(ret.args)

-----------------------------------------------------------------------------
(* Fitness sharing in evolve() *)

-----------------------------------------------------------------------------
(* The local search lane: evolve() as above, and the lane's mutateGenome    *)
(* call made on its own on a clone of one of the first five genomes         *)

\* parent.clone() mutated by mutateGenome with the lane's options, against the
\* population's tracker
LocalSearchChild ==
    /\ hist.scored
    /\ \E s \in EvolveSources :
          LET parents == SubSeq(population.genomes, 1, Min2(5, Len(population.genomes)))
          IN \E p \in 1..Len(parents) :
                \E m \in {MutateGenome(Clone(parents[p]), population.tracker,
                                       LocalSearchMutation, s, 0)} :
                   /\ population' = [population EXCEPT !.tracker = m.t]
                   /\ ret' = [op |-> "localSearch", parent |-> parents[p],
                              child |-> m.g, tracker |-> population.tracker]
    /\ UNCHANGED <<runner, store, world, lab, hist>>

LocalSearchLaneNext ==
    \/ EvolveScore
    \/ EvolveOnce
    \/ LocalSearchChild

SpecLocalSearch == EvolveInit /\ [][LocalSearchLaneNext]_vars

\* the nodes of a genome and its connections without their weights
Structure(g) ==
    [nodes |-> g.nodes,
     connections |-> [c \in 1..Len(g.connections) |->
                         [innovation |-> g.connections[c].innovation,
                          from |-> g.connections[c].from,
                          to |-> g.connections[c].to,
                          enabled |-> g.connections[c].enabled]]]

\* the positions of the local search children in the population evolve() leaves
LocalSearchRange(config, ranked) ==
    LET kept == Len(WithHallOfFame(Elites(ranked, config), config))
        target == (config.populationSize * LocalSearchPercent(config.stagnationLevel)) \div 100
        count == Min2(target, Max2(0, config.populationSize - kept))
    IN (kept + 1)..(kept + count)

\* C26: a child of the local search lane of evolve(), and the result of
\* mutateGenome with the lane's options on a clone, has the nodes and the
\* connections (innovation, from, to, enabled) of the genome it was cloned
\* from, one of the first five of the ranking; mutateGenome with these options
\* leaves the InnovationTracker as it was.
C26_LocalSearchKeepsStructure ==
    /\ (ret.op = "evolve" /\ ret.config.stagnationLevel < 5) =>
          \A p \in LocalSearchRange(ret.config, ret.ranked) :
              \E q \in 1..Min2(5, Len(ret.ranked)) :
                  Structure(population.genomes[p]) = Structure(ret.ranked[q])
    /\ ret.op = "localSearch" =>
          /\ Structure(ret.child) = Structure(ret.parent)
          /\ population.tracker = ret.tracker

\* an evolve() below level 5 that produced a local search child with a hidden
\* node, the weights of which differ from those of the genome it has the
\* structure of
C26_Witness ==
    /\ ret.op = "evolve"
    /\ ret.config.stagnationLevel < 5
    /\ \E p \in LocalSearchRange(ret.config, ret.ranked) :
          /\ HiddenCount(population.genomes[p]) > 0
          /\ \E q \in 1..Min2(5, Len(ret.ranked)) :
                /\ Structure(population.genomes[p]) = Structure(ret.ranked[q])
                /\ population.genomes[p].connections # ret.ranked[q].connections

\* mutateGenome with the lane's options changed weights of a clone with a
\* hidden node and nothing else
LocalSearchChangedWeights ==
    /\ ret.op = "localSearch"
    /\ HiddenCount(ret.child) > 0
    /\ ret.child.connections # ret.parent.connections
    /\ Structure(ret.child) = Structure(ret.parent)

-----------------------------------------------------------------------------
(* A genome from Genome.minimal that mutateAddNode, mutateToggleConnection   *)
(* and mutateWeights are applied to in any order, so that a connection can   *)
(* be split, enabled again, and split once more                              *)

MaxSplitOps == 4

SplitSources == {<<0>>, <<999>>}

SplitInit ==
    /\ Idle
    /\ \E s \in SplitSources :
          \E m \in {Minimal(NewTracker(FirstHiddenId), s, 0)} :
             lab = [NewLab EXCEPT !.tracker = m.t, !.genomes = <<m.g>>]
    /\ hist = [ops |-> 0, resplit |-> FALSE]
    /\ ret = [op |-> "minimal"]

\* mutateAddNode(genome, tracker, rng); chosen is the position of the
\* connection it picked (0 if there was none to pick)
SplitAddNode ==
    /\ hist.ops < MaxSplitOps
    /\ \E s \in SplitSources :
          \E m \in {MutateAddNode(lab.genomes[1], lab.tracker, s, 0)} :
             LET enabledConnections == EnabledIndices(lab.genomes[1].connections)
                 chosen == IF Len(enabledConnections) = 0 THEN 0
                           ELSE enabledConnections[FloorMul(Rng(s, 0),
                                                            Len(enabledConnections)) + 1]
             IN /\ lab' = [lab EXCEPT !.tracker = m.t, !.genomes[1] = m.g]
                /\ ret' = [op |-> "mutateAddNode", before |-> lab.genomes[1],
                           chosen |-> chosen]
                /\ hist' = [ops |-> hist.ops + 1,
                            resplit |-> \/ hist.resplit
                                        \/ /\ chosen # 0
                                           /\ lab.genomes[1].connections[chosen].innovation
                                                 \in DOMAIN lab.tracker.splitByInnovation]
    /\ UNCHANGED <<population, runner, store, world>>

\* mutateToggleConnection(genome, rng)
SplitToggle ==
    /\ hist.ops < MaxSplitOps
    /\ \E s \in SplitSources :
          \E m \in {MutateToggleConnection(lab.genomes[1], s, 0)} :
             /\ lab' = [lab EXCEPT !.genomes[1] = m.g]
             /\ ret' = [op |-> "mutateToggleConnection", before |-> lab.genomes[1],
                        chosen |-> 0]
    /\ hist' = [hist EXCEPT !.ops = @ + 1]
    /\ UNCHANGED <<population, runner, store, world>>

\* mutateWeights(genome, 1.0, rng)
SplitMutateWeights ==
    /\ hist.ops < MaxSplitOps
    /\ \E s \in SplitSources :
          \E m \in {MutateWeightsWithOptions(lab.genomes[1], 1000,
                                             DefaultWeightMutation, s, 0)} :
             /\ lab' = [lab EXCEPT !.genomes[1] = m.g]
             /\ ret' = [op |-> "mutateWeights", before |-> lab.genomes[1],
                        chosen |-> 0]
    /\ hist' = [hist EXCEPT !.ops = @ + 1]
    /\ UNCHANGED <<population, runner, store, world>>

SplitOpsNext ==
    \/ SplitAddNode
    \/ SplitToggle
    \/ SplitMutateWeights

SpecSplit == SplitInit /\ [][SplitOpsNext]_vars

\* the connections of conns that carry the innovation, from and to given
GenesOf(conns, innovation, from, to) ==
    {i \in 1..Len(conns) : /\ conns[i].innovation = innovation
                           /\ conns[i].from = from
                           /\ conns[i].to = to}

\* after mutateAddNode picked connection c: c is disabled, the hidden node of
\* c's split record is in the genome on the layer midway between c's ends,
\* and the two connections of the split record are in the genome, once each
SplitInPlace(g, t, before, chosen) ==
    LET c == before.connections[chosen]
        split == t.splitByInnovation[c.innovation]
    IN /\ ~g.connections[chosen].enabled
       /\ Cardinality({n \in 1..Len(g.nodes) : g.nodes[n].id = split.newNodeId}) = 1
       /\ FindNode(g.nodes, split.newNodeId).type = "hidden"
       /\ FindNode(g.nodes, split.newNodeId).layer
             = MidLayer(FindNode(g.nodes, c.from).layer, FindNode(g.nodes, c.to).layer)
       /\ Cardinality(GenesOf(g.connections, split.inInnovation, c.from, split.newNodeId)) = 1
       /\ Cardinality(GenesOf(g.connections, split.outInnovation, split.newNodeId, c.to)) = 1
       /\ Cardinality({i \in 1..Len(g.connections) :
                          g.connections[i].innovation
                              \in {split.inInnovation, split.outInnovation}}) = 2
       \* the same split applied again adds nothing
       /\ Len(SplitAt(g, t, chosen).g.nodes) = Len(g.nodes)
       /\ Len(SplitAt(g, t, chosen).g.connections) = Len(g.connections)

\* C27 as stated: after mutateAddNode on a genome with an enabled connection,
\* the chosen connection c is disabled, the hidden node of c's split record is
\* in the genome at the midpoint layer, the genome holds the connection
\* from -> newNode with weight 1 and the connection newNode -> to with c's
\* weight, and the same split applied again adds no node and no connection.
C27_SplitPostcondition ==
    (ret.op = "mutateAddNode" /\ ret.chosen # 0) =>
        LET g == lab.genomes[1]
            c == ret.before.connections[ret.chosen]
            split == lab.tracker.splitByInnovation[c.innovation]
        IN /\ SplitInPlace(g, lab.tracker, ret.before, ret.chosen)
           /\ \A i \in GenesOf(g.connections, split.inInnovation, c.from, split.newNodeId) :
                 g.connections[i].weight = 1000
           /\ \A i \in GenesOf(g.connections, split.outInnovation, split.newNodeId, c.to) :
                 g.connections[i].weight = c.weight

\* C27, amended: after mutateAddNode on a genome with an enabled connection,
\* the chosen connection c is disabled, the hidden node of c's split record is
\* in the genome at the midpoint layer and the two connections of the split
\* record are in the genome; a replacement connection the genome did not hold
\* is enabled and has weight 1 (from -> newNode) or c's weight (newNode -> to),
\* one it held already is left as it was; the same split applied again adds
\* no node and no connection.
C27_SplitAddsOnlyMissing ==
    (ret.op = "mutateAddNode" /\ ret.chosen # 0) =>
        LET g == lab.genomes[1]
            c == ret.before.connections[ret.chosen]
            split == lab.tracker.splitByInnovation[c.innovation]
            held == 1..Len(ret.before.connections)
        IN /\ SplitInPlace(g, lab.tracker, ret.before, ret.chosen)
           /\ \A i \in held \ {ret.chosen} : g.connections[i] = ret.before.connections[i]
           /\ g.connections[ret.chosen] = [c EXCEPT !.enabled = FALSE]
           /\ \A i \in GenesOf(g.connections, split.inInnovation, c.from, split.newNodeId) :
                 i \notin held => g.connections[i].weight = 1000 /\ g.connections[i].enabled
           /\ \A i \in GenesOf(g.connections, split.outInnovation, split.newNodeId, c.to) :
                 i \notin held => g.connections[i].weight = c.weight /\ g.connections[i].enabled

\* a connection split before and enabled again is split once more, after the
\* weight of its first replacement connection has moved away from 1: nothing
\* is added and that weight stays
C27_Witness ==
    /\ ret.op = "mutateAddNode"
    /\ ret.chosen # 0
    /\ hist.resplit
    /\ Len(lab.genomes[1].connections) = Len(ret.before.connections)
    /\ LET c == ret.before.connections[ret.chosen]
           split == lab.tracker.splitByInnovation[c.innovation]
       IN \E i \in GenesOf(lab.genomes[1].connections, split.inInnovation, c.from,
                           split.newNodeId) :
             lab.genomes[1].connections[i].weight # 1000

\* a first split of a connection: node and both connections are new
FirstSplit ==
    /\ ret.op = "mutateAddNode"
    /\ ret.chosen # 0
    /\ Len(lab.genomes[1].connections) = Len(ret.before.connections) + 2
    /\ Len(lab.genomes[1].nodes) = Len(ret.before.nodes) + 1

-----------------------------------------------------------------------------
(* Offspring allocation.  A Population whose threshold earlier speciate()   *)
(* calls have lowered, so that its genomes fall into several species, is     *)
(* scored as the runner scores it (a computeFitness value for the genomes    *)
(* evaluated, -1 for those a skip left out) and evolved                      *)

MaxAllocSpeciate == 8
AllocSize == 7
AllocSources == {<<400, 600, 100>>}

\* the fitness values of the genomes evaluated before a skip
AllocPatterns == {"level", "rising"}
AllocScoreOf(pattern, i) == IF pattern = "level" THEN 3000 ELSE 2000 + 1000 * i

AllocInit ==
    /\ \E s \in AllocSources : population = NewPopulation(StoreConfig(AllocSize), s)
    /\ runner = NewRunner
    /\ store = NewStore
    /\ world = NewWorld
    /\ lab = NoLab
    /\ hist = [calls |-> 0, scored |-> FALSE, evolved |-> FALSE]
    /\ ret = [op |-> "new"]

\* population.speciate()
AllocSpeciate ==
    /\ ~hist.evolved
    /\ ~hist.scored
    /\ hist.calls < MaxAllocSpeciate
    /\ \E s \in AllocSources :
          \E r \in {Speciate(population, s, 0)} : population' = r.pop
    /\ ret' = [op |-> "speciate"]
    /\ hist' = [hist EXCEPT !.calls = @ + 1]
    /\ UNCHANGED <<runner, store, world, lab>>

\* genome.fitness = fitness for the genomes evaluated, then the loop of
\* skipToNextGeneration() for the others
AllocScore ==
    /\ ~hist.evolved
    /\ ~hist.scored
    /\ \E evaluated \in 0..Len(population.genomes), pattern \in AllocPatterns :
          population' =
              [population EXCEPT !.genomes =
                  MarkSkipped([i \in 1..Len(@) |->
                                  [@[i] EXCEPT !.fitness = AllocScoreOf(pattern, i)]],
                              evaluated)]
    /\ ret' = [op |-> "score"]
    /\ hist' = [hist EXCEPT !.scored = TRUE]
    /\ UNCHANGED <<runner, store, world, lab>>

\* population.evolve(config) at a stagnation level below 5; ret keeps the
\* species as evolve() speciated them and the offspring counts it computed
AllocEvolve ==
    /\ hist.scored
    /\ \E level \in 0..4, s \in AllocSources :
          LET config == [StoreConfig(AllocSize) EXCEPT !.stagnationLevel = level,
                                                       !.injectDiversity = level >= 1]
          IN \E sp \in {Speciate([population EXCEPT
                                     !.genomes = Ranked(population.genomes, level)], s, 0)} :
                \E plan \in {OffspringPlan(sp.pop, config, level, s, sp.k)} :
                   /\ population' = Evolve(population, config, s)
                   /\ ret' = [op |-> "evolve", config |-> config,
                              desired |-> plan.desired,
                              adjusted |-> [i \in 1..Len(sp.pop.species) |->
                                               sp.pop.species[i].adjustedFitnessSum],
                              allocations |-> plan.allocations]
    /\ hist' = [hist EXCEPT !.scored = FALSE, !.evolved = TRUE]
    /\ UNCHANGED <<runner, store, world, lab>>

AllocNext ==
    \/ AllocSpeciate
    \/ AllocScore
    \/ AllocEvolve

SpecAllocate == AllocInit /\ [][AllocNext]_vars

\* totalAdjusted: the sum of the adjusted fitness sums, 1 if that is 0
TotalAdjusted(adjusted) == IF SumSeq(adjusted) = 0 THEN 1000 ELSE SumSeq(adjusted)

\* C28 as stated: the offspring counts of evolve() below level 5 sum to the
\* slots left after elites, hall of fame, local search and injection, and the
\* count of each species is within one of adjustedFitnessSum / totalAdjusted
\* x remaining, for positive fitness values and the skip value -1.
C28_CountsFillRemaining ==
    ret.op = "evolve" =>
        /\ SumSeq([i \in 1..Len(ret.allocations) |-> ret.allocations[i].count])
              = ret.desired
        /\ \A i \in 1..Len(ret.allocations) :
              LET a == ret.allocations[i]
                  total == TotalAdjusted(ret.adjusted)
              IN Abs(a.count * total - ret.adjusted[a.species] * ret.desired) <= Abs(total)

\* an evolve() over several species, one of them with a negative adjusted
\* fitness sum
SeveralSpeciesSkipped ==
    /\ ret.op = "evolve"
    /\ Len(ret.allocations) > 1
    /\ \E i \in 1..Len(ret.adjusted) : ret.adjusted[i] < 0
    /\ \E i \in 1..Len(ret.adjusted) : ret.adjusted[i] > 0

\* offspring counts that are negative for some species
NegativeOffspringCount ==
    /\ ret.op = "evolve"
    /\ \E i \in 1..Len(ret.allocations) : ret.allocations[i].count < 0

\* the species with a positive count are given more offspring than there are
\* slots left, the adjusted fitness sums not adding up to 0
OffspringExceedSlots ==
    /\ ret.op = "evolve"
    /\ SumSeq(ret.adjusted) # 0
    /\ ret.desired > 0
    /\ SumSeq([i \in 1..Len(ret.allocations) |-> Max2(0, ret.allocations[i].count)])
          > ret.desired

-----------------------------------------------------------------------------
(* Replay Best and Compare Generations during a training run: the buttons   *)
(* are pressed at any point of the first generations, the replays run and   *)
(* the mode is left again by the button that entered it.                     *)

PauseMaxGeneration == 3
PauseMaxPresses == 3
PauseDistVals == {1000}
PauseFitVals == {2000, 5000}

VisualizationModes == {"replayBest", "compare"}

PauseTrain == Train(PauseMaxGeneration, PauseDistVals, PauseFitVals)

\* the Replay Best button
PauseReplayBest ==
    /\ hist.presses < PauseMaxPresses
    /\ Becomes(Pressed(ReplayAllTimeBest(Cur)),
               [op |-> "replayAllTimeBest", from |-> runner.mode,
                entered |-> hist.entered, evalTime |-> runner.evalTime])
    /\ UNCHANGED <<store, lab>>

\* the Compare Generations button
PauseCompareGenerations ==
    /\ hist.presses < PauseMaxPresses
    /\ Becomes(Pressed(ToggleCompareGenerations(Cur)),
               [op |-> "toggleCompareGenerations", from |-> runner.mode,
                entered |-> hist.entered,
                items |-> IF runner.compareMode = NoCompare THEN <<>>
                          ELSE runner.compareMode.items])
    /\ UNCHANGED <<store, lab>>

PauseNext ==
    \/ PauseTrain
    \/ TickReplayBest
    \/ TickCompare
    \/ PauseReplayBest
    \/ PauseCompareGenerations

SpecPause == RunnerInit /\ [][PauseNext]_vars

\* C29: while the mode is replayBest or compare a tick leaves the generation
\* counter, every genome, the current genome index and the count of
\* generations without improvement as they are; and when the button of the
\* mode switches it off, training starts again with the genome whose index
\* was current when the mode was entered.
C29_EvolutionPaused ==
    [][/\ (/\ runner.mode \in VisualizationModes
           /\ ret'.op \in {"stepReplayBestOnce", "stepCompareOnce"})
          => /\ population'.generation = population.generation
             /\ population'.genomes = population.genomes
             /\ runner'.currentGenomeIndex = runner.currentGenomeIndex
             /\ runner'.generationsWithoutImprovement =
                    runner.generationsWithoutImprovement
       /\ (/\ runner.mode \in VisualizationModes
           /\ ret'.op \in {"replayAllTimeBest", "toggleCompareGenerations"}
           /\ runner'.mode = "train")
          => /\ runner'.currentGenomeIndex = hist.entered
             /\ runner'.currentNetwork = hist.entered
             /\ runner'.evalTime = 0
             /\ population' = population]_vars

\* the all-time best was replayed for some steps while the second genome of a
\* generation was waiting, and Replay Best then switched the replay off
C29_Witness ==
    /\ ret.op = "replayAllTimeBest"
    /\ ret.from = "replayBest"
    /\ ret.evalTime > 0
    /\ ret.entered = 1
    /\ runner.mode = "train"
    /\ runner.currentGenomeIndex = 1

\* the recorded generations ran side by side and Compare Generations then
\* switched the comparison off
ComparisonSwitchedOff ==
    /\ ret.op = "toggleCompareGenerations"
    /\ ret.from = "compare"
    /\ ret.entered = 1
    /\ \E i \in 1..Len(ret.items) :
          ret.items[i].session # NoSession /\ ret.items[i].session.evalTime > 0
    /\ runner.mode = "train"
    /\ runner.currentGenomeIndex = 1

\* Compare Generations pressed while the all-time best is replayed
ModeToMode ==
    /\ ret.op = "toggleCompareGenerations"
    /\ ret.from = "replayBest"
    /\ runner.mode = "compare"
    /\ hist.entered = 1

-----------------------------------------------------------------------------
(* The episode clock.  evalTime is a JavaScript number: stepOnce() adds      *)
(* dtSeconds to it with IEEE 754 double precision addition, rounding to the  *)
(* nearest double, ties to even.  Every double between 2^-6 and 32 is a      *)
(* whole multiple of 2^-58, so a time is kept as that multiple, written in   *)
(* three limbs of 21 bits, lowest first.                                      *)

Limb == 2^21

\* 52 stored digits and the leading one
MantissaBits == 52 + 1

\* carries moved upwards until every limb is below Limb
Normalize(x) ==
    LET c0 == x[1] \div Limb
        c1 == (x[2] + c0) \div Limb
    IN <<x[1] % Limb, (x[2] + c0) % Limb, x[3] + c1>>

\* the number of binary digits of n
Digits(n) == IF n = 0 THEN 0 ELSE CHOOSE k \in 1..31 : 2^(k - 1) <= n /\ (k = 31 \/ n < 2^k)

BitLength(x) ==
    IF x[3] > 0 THEN 42 + Digits(x[3])
    ELSE IF x[2] > 0 THEN 21 + Digits(x[2])
    ELSE Digits(x[1])

\* the double nearest to the exact value x, ties to the even mantissa
FloatRound(x) ==
    LET k == Max2(0, BitLength(x) - MantissaBits)
        r == x[1] % 2^k
        down == x[1] - r
        odd == (down \div 2^k) % 2 = 1
        up == k > 0 /\ (2 * r > 2^k \/ (2 * r = 2^k /\ odd))
    IN Normalize(<<down + (IF up THEN 2^k ELSE 0), x[2], x[3]>>)

\* a + b of two JavaScript numbers
FloatAdd(a, b) == FloatRound(Normalize(<<a[1] + b[1], a[2] + b[2], a[3] + b[3]>>))

\* a >= b
FloatAtLeast(a, b) ==
    \/ a[3] > b[3]
    \/ a[3] = b[3] /\ a[2] > b[2]
    \/ a[3] = b[3] /\ a[2] = b[2] /\ a[1] >= b[1]

FloatZero == <<0, 0, 0>>

\* the whole number n of seconds, below 32
Seconds(n) == <<0, 0, n * 65536>>

\* 1 / den for a divisor from 33 to 64: the quotient 2^58 / den by long
\* division, rounded to the nearest whole number, ties to even
Reciprocal(den) ==
    LET q2 == 65536 \div den
        r2 == 65536 % den
        q1 == (r2 * Limb) \div den
        r1 == (r2 * Limb) % den
        q0 == (r1 * Limb) \div den
        r0 == (r1 * Limb) % den
        up == 2 * r0 > den \/ (2 * r0 = den /\ q0 % 2 = 1)
    IN Normalize(<<q0 + (IF up THEN 1 ELSE 0), q1, q2>>)

\* defaultConfig.evaluation: dtSeconds: 1 / 60, maxSeconds: 25
DtDivisor == 60
DtSeconds == Reciprocal(DtDivisor)
MaxSecondsFloat == Seconds(MaxSeconds \div 1000)

\* ceil(maxSeconds / dtSeconds)
CeilSteps == (MaxSeconds * DtDivisor + 999) \div 1000

-----------------------------------------------------------------------------
(* Uninterrupted training: playing stays true, no button is pressed, every  *)
(* tick runs one stepOnce().  runner.evalTime counts the steps of the        *)
(* episode, lab.evalTime is the value of this.evalTime.  The creature may    *)
(* fall at any step.                                                         *)

ProgressMaxGeneration == 2
ProgressDistVals == {1000}
ProgressFitVals == {2000}

\* config.evaluation.maxSeconds in steps, as stepOnce() sees it after a step:
\* the count of this step when evalTime has reached maxSeconds with it, a
\* later step otherwise
TimeLimitSteps(evalTime, steps) ==
    IF FloatAtLeast(evalTime, MaxSecondsFloat) THEN steps ELSE steps + 1

ProgressInit ==
    /\ store \in {[playing |-> TRUE, showBestOnly |-> b, frame |-> 0] : b \in BOOLEAN}
    /\ lab = [evalTime |-> FloatZero]
    /\ \E s \in RunnerSources :
          LET st == Reset([r |-> NewRunner, w |-> NewWorld, h |-> NewHistory],
                          StoreConfig(PopSize), s)
          IN /\ population = st.p
             /\ runner = st.r
             /\ world = st.w
             /\ hist = st.h
    /\ ret = [op |-> "reset"]

\* the browser calls tick() for the next animation frame; store.frame tells
\* odd frames from even ones
Frame ==
    /\ store.playing
    /\ runner.mode = "train"
    /\ population.generation < ProgressMaxGeneration
    /\ store' = [store EXCEPT !.frame = 1 - @]

\* tick() in train mode: one stepOnce()
ProgressTick ==
    /\ Frame
    /\ \E fallen \in BOOLEAN, distance \in ProgressDistVals,
          fitness \in ProgressFitVals, s \in RunnerSources :
          LET evalTime == FloatAdd(lab.evalTime, DtSeconds)
              st == StepOnce(Cur, store.showBestOnly, StoreConfig(PopSize),
                             TimeLimitSteps(evalTime, runner.evalTime + 1),
                             fallen, distance, fitness, s)
          IN /\ Becomes(st, Outcome("stepOnce", st, fallen))
             /\ lab' = [evalTime |-> IF st.r.evalTime = 0 THEN FloatZero ELSE evalTime]

ProgressNext == ProgressTick

\* tick() asks for the next animation frame at every call, so frames keep
\* coming while the application is open
SpecProgress == ProgressInit /\ [][ProgressNext]_vars /\ WF_store(Frame)

\* every generation eventually gives way to the next
GenerationsEnd ==
    \A g \in 1..(ProgressMaxGeneration - 1) :
        (population.generation = g) ~> (population.generation = g + 1)

\* the generation counter changes at a call of evolve() only, and then by one
OnePerEvolve ==
    [][/\ (hist'.evolve # hist.evolve) <=>
              (population'.generation = population.generation + 1)
       /\ population'.generation \in
              {population.generation, population.generation + 1}]_vars

ClockShortOfLimit ==
    /\ runner.evalTime = CeilSteps
    /\ ~FloatAtLeast(lab.evalTime, MaxSecondsFloat)
    /\ lab.evalTime = <<2057216, 2097151, 1638399>>

====
